---- MODULE Spec2Model ----
(***************************************************************************)
(* nm-proxy daemon: the connection-to-process bridge.                      *)
(*                                                                         *)
(* One Subprocess Bridge (ClientTaskConfig::launch, src/daemon/client.rs)  *)
(* runs per accepted connection.  The Browser Listener and the Daemon      *)
(* Supervisor of the token-passing generation of the daemon are not part   *)
(* of the source tree (src/daemon/main.rs is the first generation: it has  *)
(* no token and no connection ids and does not fit ClientTaskConfig), so   *)
(* those two components follow the specification's sections 4.4 and 4.5.   *)
(*                                                                         *)
(* A bridge is a record; each step of launch is a function on that record. *)
(* SpecBridge interleaves the steps of one bridge with its client, its     *)
(* child and the token's owner.  Spec, the whole daemon, runs the steps    *)
(* from the first task completion to the return of launch in one go: they  *)
(* read nothing but the bridge's own record.  FairSpecBridge is SpecBridge *)
(* under a runtime that polls ready futures and fires timers.              *)
(*                                                                         *)
(* SpecClient is the proxy process (src/client/main.rs) from its command   *)
(* line to its exit.  SpecFrame puts one HandshakeMessage, or a payload    *)
(* framed by another peer, through the framed object channel               *)
(* (send_nm_object, recv_nm_object, src/common/mod.rs) byte by byte.       *)
(* SpecBoot is the start of the daemon as src/daemon/main.rs has it, from  *)
(* the loaded browser map to serving.  SpecStderr is stderr_task of        *)
(* src/daemon/client.rs on one child's stderr stream.  SpecSetup is the    *)
(* setup tool's install_manifests and the save of the map it builds        *)
(* (src/setup/main.rs).  FairSpecClient is SpecClient under a runtime that *)
(* polls the main task and drops aborted tasks.                            *)
(***************************************************************************)
EXTENDS Integers, Sequences, FiniteSets, TLC

\* ------------------------------------------------------------------ bounds
\* Connections accepted by the whole daemon in one run.
MaxConn == 2
\* Items a client writes to its connection (the handshake frame included).
MaxSent == 2
\* Chunks of child output relayed to one connection.
MaxRelay == 1
\* Failures the operating system injects in one run: a spawn, wait or kill
\* that fails, an I/O error in a relay task, a failed wait for the interrupt
\* signal.
MaxFaults == 1
\* Failed accepts of the whole daemon in one run.
MaxAcceptErrs == 2
\* Arguments in a HandshakeMessage put through the framed channel.
MaxArgs == 2

\* --------------------------------------------------------------- constants
Browsers == {"firefox", "chromium"}
Conns == 1..MaxConn
TaskNames == {"stdout", "stdin", "stderr", "watcher"}
None == "none"

\* The Native Binary Map: browser -> (manifest_name -> executable path).
NativeBinaries ==
    [b \in Browsers |->
        IF b = "firefox"
        THEN [m \in {"app1"} |-> "/usr/bin/app1"]
        ELSE [m \in {"app1", "app2"} |->
                IF m = "app1" THEN "/opt/app1" ELSE "/usr/bin/app2"]]

\* HandshakeMessage { manifest_name, args }.
HandshakeA == [manifest_name |-> "app1", args |-> <<"app1.json", "ext1">>]
HandshakeB == [manifest_name |-> "app2", args |-> <<"app2.json", "ext2">>]
Handshakes == {HandshakeA, HandshakeB}

\* What a client can put on the wire: a well-formed frame holding a
\* HandshakeMessage, a frame whose payload does not decode, the beginning of
\* a frame (fewer than 4+len bytes), opaque data.
Frame(m) == [kind |-> "frame", msg |-> m]
BadFrame == [kind |-> "bad", msg |-> None]
PartFrame == [kind |-> "part", msg |-> None]
Data == [kind |-> "data", msg |-> None]
FirstItems == {Frame(m) : m \in Handshakes} \cup {BadFrame, PartFrame}
LaterItems == {Data, Frame(HandshakeA)}

VARIABLES
    \* daemon supervisor: the root token and the top-level join set
    token, spc, sigTask, cancels, sjoined, sres,
    \* browser listeners and the shared connection-id generator
    lpc, lres, ljoined, nextId, acceptErrs,
    \* the subprocess bridges, one record per connection id
    br,
    \* each connection: what the client wrote to it, and whether it is still
    \* open (the client closes it, or the bridge does by returning)
    sent, cl,
    \* failures injected so far
    faults,
    \* the client-side bridge: one proxy process from connect to exit
    cli,
    \* the framed object channel: one send into a writer, one recv from the
    \* bytes the writer took
    fr,
    \* the daemon's start: from the loaded browser map to serving or exit
    boot,
    \* one child's stderr: what it wrote and what the bridge logged of it
    elog,
    \* the setup tool: the manifest directories it reads, the manifests it
    \* deploys and the Native Binary Map it builds and saves
    setup

supVars == <<token, spc, sigTask, cancels, sjoined, sres>>
lstVars == <<lpc, lres, ljoined, nextId, acceptErrs>>
clVars == <<sent, cl>>
sideVars == <<cli, fr, boot, elog, setup>>
daemonVars == <<supVars, lstVars, br, clVars, faults>>
vars == <<daemonVars, sideVars>>

\* ------------------------------------------------------------------- Init
NoTasks == [t \in TaskNames |-> "none"]

\* A connection id that no listener has handed out yet.
IdleBridge ==
    [pc |-> "idle", owner |-> None, hs |-> None, rpos |-> 0,
     task |-> NoTasks, aborted |-> FALSE, result |-> None, trace |-> <<>>,
     child |-> "none", cmd |-> None, stdin |-> <<>>, relayed |-> 0]

\* The proxy process before it is invoked: no arguments, no runtime
\* directory read.
ClientTasks == {"stdin_copy", "stdout_copy", "ctrl_c"}
IdleClient ==
    [pc |-> "invoked", argv |-> <<>>, dir |-> <<>>, socket |-> <<>>,
     error |-> None, hs |-> None, wire |-> <<>>,
     task |-> [t \in ClientTasks |-> "none"], ready |-> <<>>,
     joined |-> <<>>, aborted |-> FALSE, aborts |-> 0, graceful |-> FALSE,
     exit |-> None, trace |-> <<>>]

\* No send and no recv has been made.
IdleChannel == [pc |-> "idle"]

\* The daemon's main has not been entered; no child has written to stderr.
IdleBoot == [pc |-> "idle"]
IdleLog == [pc |-> "idle"]
\* The setup tool has not been run.
IdleSetup == [pc |-> "idle"]
IdleSide == boot = IdleBoot /\ elog = IdleLog /\ setup = IdleSetup

InitDaemon ==
    /\ token = FALSE
    /\ spc = "running"
    /\ sigTask = "waiting"
    /\ cancels = 0
    /\ sjoined = <<>>
    /\ sres = None
    /\ lpc = [b \in Browsers |-> "accepting"]
    /\ lres = [b \in Browsers |-> None]
    /\ ljoined = <<>>
    /\ nextId = 1
    /\ acceptErrs = 0
    /\ br = [c \in Conns |-> IdleBridge]
    /\ sent = [c \in Conns |-> <<>>]
    /\ cl = [c \in Conns |-> "open"]
    /\ faults = 0

Init == cli = IdleClient /\ fr = IdleChannel /\ IdleSide /\ InitDaemon

\* The environment may fail n operations while its budget lasts.
Faults(n) == faults + n <= MaxFaults /\ faults' = faults + n
Count(p) == IF p THEN 1 ELSE 0

\* ------------------------------------------------------- the client's end
\* The peer writes to its connection: a first item, then later items; after
\* the beginning of a frame it writes nothing more.
ClientSend(c, item) ==
    /\ br[c].pc \notin {"idle", "Done"}
    /\ cl[c] = "open"
    /\ Len(sent[c]) < MaxSent
    /\ sent[c] # <<>> => sent[c][Len(sent[c])] # PartFrame
    /\ item \in (IF sent[c] = <<>> THEN FirstItems ELSE LaterItems)
    /\ sent' = [sent EXCEPT ![c] = Append(@, item)]
    /\ UNCHANGED <<sideVars, supVars, lstVars, br, cl, faults>>

\* The peer closes its end of the connection.
ClientClose(c) ==
    /\ br[c].pc \notin {"idle", "Done"}
    /\ cl[c] = "open"
    /\ cl' = [cl EXCEPT ![c] = "closed"]
    /\ UNCHANGED <<sideVars, supVars, lstVars, br, sent, faults>>

\* ------------------------------------------------- the subprocess bridge
\* A read that would leave the frame in the stream (a peek): not what
\* recv_nm_object does, and C7 tells the two apart.
RecvPeek(stream, pos) ==
    IF pos >= Len(stream)
    THEN [ok |-> FALSE, msg |-> None, pos |-> pos]
    ELSE IF stream[pos + 1].kind = "frame"
         THEN [ok |-> TRUE, msg |-> stream[pos + 1].msg, pos |-> pos]
         ELSE [ok |-> FALSE, msg |-> None, pos |-> pos]

\* A receive that would take whatever arrived for a handshake, a payload
\* that does not decode included; C11 tells the two apart.
RecvLenient(stream, pos) ==
    IF pos >= Len(stream)
    THEN [ok |-> FALSE, msg |-> None, pos |-> pos]
    ELSE IF stream[pos + 1].kind \in {"frame", "bad"}
         THEN [ok |-> TRUE,
               msg |-> IF stream[pos + 1].kind = "frame"
                       THEN stream[pos + 1].msg ELSE HandshakeA,
               pos |-> pos + 1]
         ELSE [ok |-> FALSE, msg |-> None, pos |-> pos + 1]

\* recv_nm_object on the connection's read half: read_exact fails when the
\* stream ended before a whole frame arrived; a payload that is not a
\* HandshakeMessage fails to decode.  What was read is consumed either way.
RecvObject(stream, pos) ==
    IF pos >= Len(stream)
    THEN [ok |-> FALSE, msg |-> None, pos |-> pos]
    ELSE IF stream[pos + 1].kind = "frame"
         THEN [ok |-> TRUE, msg |-> stream[pos + 1].msg, pos |-> pos + 1]
         ELSE [ok |-> FALSE, msg |-> None, pos |-> pos + 1]

\* A lookup that would fall back to the manifest name as the executable
\* instead of reporting the missing entry; C10 tells the two apart.
LookupOrName(bin_map, name) ==
    IF name \in DOMAIN bin_map THEN bin_map[name] ELSE name

\* self.bin_map.get(&handshake.manifest_name)
Lookup(bin_map, name) ==
    IF name \in DOMAIN bin_map THEN bin_map[name] ELSE None

\* A command that would drop the handshake's arguments; C6 tells the two
\* apart.
SpawnBare(binary, handshake) == [exe |-> binary, args |-> <<>>]

\* Command::new(binary).args(handshake.args)
SpawnCommand(binary, handshake) ==
    [exe |-> binary, args |-> handshake.args]

\* launch, from the completed handshake read to the four tasks being
\* spawned into the JoinSet, with the `?` early returns in order: the
\* handshake, the lookup, the spawn.
LaunchF(b, stream, spawnOk) ==
    LET got == RecvObject(stream, b.rpos)
        binary == IF got.ok
                  THEN Lookup(NativeBinaries[b.owner], got.msg.manifest_name)
                  ELSE None
        read == [b EXCEPT !.rpos = got.pos, !.hs = got.msg,
                          !.trace = Append(@, "recv")]
    IN  IF ~got.ok
        THEN [read EXCEPT !.pc = "Done", !.result = "err_handshake"]
        ELSE IF binary = None
        THEN [read EXCEPT !.pc = "Done", !.result = "err_resolve"]
        ELSE IF ~spawnOk
        THEN [read EXCEPT !.pc = "Done", !.result = "err_spawn",
                          !.cmd = SpawnCommand(binary, got.msg)]
        ELSE [read EXCEPT !.pc = "Join", !.child = "alive",
                          !.cmd = SpawnCommand(binary, got.msg),
                          !.task = [t \in TaskNames |-> "run"],
                          !.trace = Append(@, "spawn")]

\* A return that would take every connection down with its own; C12 tells
\* the two apart.
HangupAll(c) ==
    cl' = [d \in Conns |-> IF br'[c].pc = "Done" THEN "closed" ELSE cl[d]]

\* launch returned: its halves of the stream are dropped with it, which
\* closes the connection.
Hangup(c) ==
    cl' = [cl EXCEPT ![c] = IF br'[c].pc = "Done" THEN "closed" ELSE @]

\* read_exact has what it asked for: a whole frame lies unread in the stream.
WholeFrame(stream, pos) == pos < Len(stream) /\ stream[pos + 1] # PartFrame

\* The handshake read completes once the client has written a whole frame
\* or has closed.
Launch(c, spawnOk) ==
    /\ br[c].pc = "AwaitingHandshake"
    /\ WholeFrame(sent[c], br[c].rpos) \/ cl[c] = "closed"
    /\ LET b == LaunchF(br[c], sent[c], spawnOk) IN
        /\ spawnOk \/ b.result = "err_spawn"
        /\ Faults(Count(b.result = "err_spawn"))
        /\ br' = [br EXCEPT ![c] = b]
    /\ Hangup(c)
    /\ UNCHANGED <<sideVars, supVars, lstVars, sent>>

\* copy(&mut stream_rx, &mut child_stdin): one item moves to the child.
CopyIn(c) ==
    /\ br[c].task["stdin"] = "run"
    /\ br[c].child = "alive"
    /\ br[c].rpos < Len(sent[c])
    /\ br' = [br EXCEPT ![c].stdin = Append(@, sent[c][br[c].rpos + 1]),
                        ![c].rpos = @ + 1]
    /\ UNCHANGED <<sideVars, supVars, lstVars, clVars, faults>>

\* copy(&mut child_stdout, &mut stream_tx): one chunk moves to the client.
CopyOut(c) ==
    /\ br[c].task["stdout"] = "run"
    /\ br[c].child = "alive"
    /\ cl[c] = "open"
    /\ br[c].relayed < MaxRelay
    /\ br' = [br EXCEPT ![c].relayed = @ + 1]
    /\ UNCHANGED <<sideVars, supVars, lstVars, clVars, faults>>

\* When a task of the JoinSet can finish, and how.
\*   stdout copy:  EOF once the child is gone; a write to a connection the
\*                 client has closed fails.
\*   stdin copy:   EOF once the client has closed and all it sent is read;
\*                 a write to the stdin of a child that is gone fails.
\*   stderr_task:  Ok(0) once the child is gone; read_line fails on a line
\*                 that is not UTF-8.
\*   watcher:      token.cancelled(), then Ok(()).
CanFinish(b, stream, closed, cancelled, t, r) ==
    CASE t = "stdout" ->
            \/ r = "ok" /\ b.child # "alive"
            \/ r = "err" /\ b.child = "alive" /\ closed
      [] t = "stdin" ->
            \/ r = "ok" /\ closed /\ b.rpos = Len(stream)
            \/ r = "err" /\ b.child # "alive" /\ b.rpos < Len(stream)
      [] t = "stderr" ->
            \/ r = "ok" /\ b.child # "alive"
            \/ r = "err" /\ b.child = "alive"
      [] t = "watcher" -> r = "ok" /\ cancelled

TaskFinishF(b, t, r) == [b EXCEPT !.task[t] = r]

\* A task of the set finishes.  join_next matches a task that ended with Ok
\* like one that abort_all cancelled (both arms are `()`), so a second task
\* ending with Ok before the set is drained is not told apart from one that
\* is cancelled: only the first Ok and the failures are distinguished.
TaskFinish(c, t, r) ==
    /\ br[c].task[t] = "run"
    /\ CanFinish(br[c], sent[c], cl[c] = "closed", token, t, r)
    /\ r = "ok" => ~br[c].aborted /\ \A u \in TaskNames : br[c].task[u] # "ok"
    /\ Faults(Count(r = "err"))
    /\ br' = [br EXCEPT ![c] = TaskFinishF(@, t, r)]
    /\ UNCHANGED <<sideVars, supVars, lstVars, clVars>>

\* The child exits on its own account (its pipes closed, it was signalled,
\* it was done); it stays a zombie until the bridge waits on it.
ChildExitF(b) == [b EXCEPT !.child = "zombie"]

ChildExit(c) ==
    /\ br[c].pc \in {"Join", "Grace", "Wait"}
    /\ br[c].child = "alive"
    /\ br' = [br EXCEPT ![c] = ChildExitF(@)]
    /\ UNCHANGED <<sideVars, supVars, lstVars, clVars, faults>>

\* launch returns: its JoinSet is dropped (the tasks left are aborted) and
\* its Child is dropped (not killed: kill_on_drop is not set).
Return(b, res) == [b EXCEPT !.pc = "Done", !.result = res, !.task = NoTasks]

Finished == {"ok", "err", "cancelled"}

\* A loop that would run the termination sequence after every completion;
\* C2 tells the two apart.
EveryCompletion(b) == TRUE

\* `if !aborted`
FirstCompletion(b) == ~b.aborted

\* Ok(Err(e)) => Err(e).context("IO task error")?
SurfacesError(r) == r = "err"

\* set.join_next() returned task t: match on its result, then enter the
\* termination sequence if this is the first completion.
JoinNextF(b, t) ==
    IF SurfacesError(b.task[t])
    THEN Return(b, "err_io")
    ELSE LET j == [b EXCEPT !.task[t] = "joined"] IN
         IF FirstCompletion(b)
         THEN [j EXCEPT !.aborted = TRUE, !.pc = "Grace",
                        !.trace = Append(@, "grace")]
         ELSE j

\* After abort_all every task left in the set is finished or cancelled and
\* nothing else runs until launch returns; the order in which join_next hands
\* them back is not observable, so one order stands for all.
TaskOrder == <<"stdout", "stdin", "stderr", "watcher">>
NextFinished(b) ==
    LET i == CHOOSE i \in 1..4 :
                /\ b.task[TaskOrder[i]] \in Finished
                /\ \A j \in 1..(i - 1) : b.task[TaskOrder[j]] \notin Finished
    IN TaskOrder[i]

JoinNext(c, t) ==
    /\ br[c].pc = "Join"
    /\ br[c].task[t] \in Finished
    /\ br[c].aborted => t = NextFinished(br[c])
    /\ br' = [br EXCEPT ![c] = JoinNextF(@, t)]
    /\ Hangup(c)
    /\ UNCHANGED <<sideVars, supVars, lstVars, sent, faults>>

\* child.id() is Some: it is None once the child has been polled to
\* completion.
ChildHasId(b) == b.child \in {"alive", "zombie"}

\* A termination in which signalling a child that has exited already is an
\* error; C24 tells the two apart.
SigtermStrictF(b) ==
    IF b.child = "alive"
    THEN [b EXCEPT !.pc = "Wait", !.trace = Append(@, "sigterm")]
    ELSE Return(b, "err_signal")

\* time::sleep(200 ms) is over: signal::kill(pid, SIGTERM) if the child has
\* an id, then the select! is entered.
GraceElapsedF(b) ==
    [b EXCEPT !.pc = "Wait",
              !.trace = IF ChildHasId(b) THEN Append(@, "sigterm") ELSE @]

GraceElapsed(c) ==
    /\ br[c].pc = "Grace"
    /\ br' = [br EXCEPT ![c] = GraceElapsedF(@)]
    /\ UNCHANGED <<sideVars, supVars, lstVars, clVars, faults>>

\* A termination that would leave the other tasks running; C17 tells the two
\* apart.
AbortNone(ts) == ts

\* set.abort_all()
AbortAll(ts) == [t \in TaskNames |-> IF ts[t] = "run" THEN "cancelled" ELSE ts[t]]

\* A termination that would signal the child once more after having waited
\* on it; C30 tells the two apart.
WaitThenSignalF(b, ok) ==
    IF ok
    THEN [b EXCEPT !.child = "reaped",
                   !.trace = @ \o <<"exit", "sigterm">>,
                   !.task = AbortAll(@), !.pc = "Join"]
    ELSE Return(b, "err_wait")

\* select!: child.wait() resolves first.  Ok(s) is logged; Err(e) returns.
WaitExitedF(b, ok) ==
    IF ok
    THEN [b EXCEPT !.child = "reaped", !.trace = Append(@, "exit"),
                   !.task = AbortAll(@), !.pc = "Join"]
    ELSE Return(b, "err_wait")

WaitExited(c, ok) ==
    /\ br[c].pc = "Wait"
    /\ br[c].child \in {"zombie", "reaped"}
    /\ Faults(Count(~ok))
    /\ br' = [br EXCEPT ![c] = WaitExitedF(@, ok)]
    /\ Hangup(c)
    /\ UNCHANGED <<sideVars, supVars, lstVars, sent>>

\* A kill that would not wait for the child; C8 tells the two apart.
KillNoWait(st) == st

\* child.kill().await: SIGKILL, then wait for the child (reaping it).
KillAndWait(st) == "reaped"

\* select!: the 10 s sleep resolves first (the child is still running):
\* warn, then child.kill().await, `?` on its failure.
TimeoutKillF(b, ok) ==
    LET k == [b EXCEPT !.trace = @ \o <<"timeout", "kill">>] IN
    IF ok
    THEN [k EXCEPT !.child = KillAndWait(@), !.task = AbortAll(@),
                   !.pc = "Join"]
    ELSE Return(k, "err_kill")

TimeoutKill(c, ok) ==
    /\ br[c].pc = "Wait"
    /\ br[c].child = "alive"
    /\ Faults(Count(~ok))
    /\ br' = [br EXCEPT ![c] = TimeoutKillF(@, ok)]
    /\ Hangup(c)
    /\ UNCHANGED <<sideVars, supVars, lstVars, sent>>

\* set.join_next() returned None: the loop ends and launch returns Ok(()).
JoinDoneF(b) == Return(b, "ok")

JoinDone(c) ==
    /\ br[c].pc = "Join"
    /\ \A t \in TaskNames : br[c].task[t] = "joined"
    /\ br' = [br EXCEPT ![c] = JoinDoneF(@)]
    /\ Hangup(c)
    /\ UNCHANGED <<sideVars, supVars, lstVars, sent, faults>>

\* The rest of launch in one go, from the first task finishing to the
\* return: task t finishes with r, a task `late` fails as well (or none),
\* the child exits by itself or not, t is joined, the grace sleep passes,
\* SIGTERM is sent, the wait or the kill after the timeout succeeds or not,
\* and the set is drained.
RECURSIVE Drain(_)
Drain(b) ==
    IF b.pc = "Done" THEN b
    ELSE IF \A t \in TaskNames : b.task[t] = "joined" THEN JoinDoneF(b)
    ELSE Drain(JoinNextF(b, NextFinished(b)))

Teardown(b, t, r, late, exits, ok) ==
    LET done == TaskFinishF(b, t, r)
        failed == IF late = None THEN done ELSE TaskFinishF(done, late, "err")
        gone == IF exits /\ failed.child = "alive"
                THEN ChildExitF(failed)
                ELSE failed
        first == JoinNextF(gone, t)
        term == GraceElapsedF(first)
        raced == IF term.child = "alive"
                 THEN TimeoutKillF(term, ok)
                 ELSE WaitExitedF(term, ok)
    IN  IF first.pc = "Done" THEN first ELSE Drain(raced)

Serve(c, t, r) ==
    /\ br[c].pc = "Join"
    /\ \A u \in TaskNames : br[c].task[u] = "run"
    /\ CanFinish(br[c], sent[c], cl[c] = "closed", token, t, r)
    /\ \E late \in TaskNames \cup {None}, exits \in BOOLEAN, ok \in BOOLEAN :
        /\ late # None =>
              /\ late # t
              /\ r = "ok"
              /\ CanFinish(br[c], sent[c], cl[c] = "closed", token, late, "err")
        /\ r = "err" => late = None /\ ok
        /\ br[c].child # "alive" => exits
        /\ Faults(Count(r = "err") + Count(late # None) + Count(~ok))
        /\ br' = [br EXCEPT ![c] = Teardown(@, t, r, late, exits, ok)]
    /\ Hangup(c)
    /\ UNCHANGED <<sideVars, supVars, lstVars, sent>>

\* ---------------------------------------------------- the browser listener
\* An accept that would read the id generator without advancing it; C28
\* tells the two apart.
AcceptSameId(b) ==
    /\ lpc[b] = "accepting"
    /\ ~token
    /\ nextId <= MaxConn
    /\ br' = [br EXCEPT ![nextId].pc = "AwaitingHandshake",
                        ![nextId].owner = b]
    /\ UNCHANGED <<sideVars, supVars, lstVars, clVars, faults>>

\* The accept loop races the token against accept(); an accepted connection
\* gets the next connection id and a bridge spawned into the listener's set.
Accept(b) ==
    /\ lpc[b] = "accepting"
    /\ ~token
    /\ nextId <= MaxConn
    /\ br' = [br EXCEPT ![nextId].pc = "AwaitingHandshake",
                        ![nextId].owner = b]
    /\ nextId' = nextId + 1
    /\ UNCHANGED <<sideVars, supVars, lpc, lres, ljoined, acceptErrs, clVars,
                   faults>>

\* An accept loop that would end at the first failed accept; C13 tells the
\* two apart.
AcceptFailStops(b) ==
    /\ lpc[b] = "accepting"
    /\ ~token
    /\ acceptErrs < MaxAcceptErrs
    /\ acceptErrs' = acceptErrs + 1
    /\ lpc' = [lpc EXCEPT ![b] = "draining"]
    /\ UNCHANGED <<sideVars, supVars, lres, ljoined, nextId, br, clVars,
                   faults>>

\* accept() failed: the error is logged and the loop goes on.
AcceptFail(b) ==
    /\ lpc[b] = "accepting"
    /\ ~token
    /\ acceptErrs < MaxAcceptErrs
    /\ acceptErrs' = acceptErrs + 1
    /\ UNCHANGED <<sideVars, supVars, lpc, lres, ljoined, nextId, br, clVars,
                   faults>>

\* The token won the race: the listener stops accepting and drains.
ListenerCancelled(b) ==
    /\ lpc[b] = "accepting"
    /\ token
    /\ lpc' = [lpc EXCEPT ![b] = "draining"]
    /\ UNCHANGED <<sideVars, supVars, lres, ljoined, nextId, acceptErrs, br,
                   clVars,
                   faults>>

\* The bridges this listener spawned.
Spawned(b) == {c \in Conns : br[c].owner = b}

Range(seq) == {seq[i] : i \in DOMAIN seq}

\* A join that would keep the last error; C4 tells the two apart.
LastError(kept, res) == IF res # "ok" THEN res ELSE kept

\* "Surfacing the first error": the error kept so far stays, a success
\* changes nothing.
FirstError(kept, res) == IF kept = None /\ res # "ok" THEN res ELSE kept

\* Draining: one finished bridge is joined.
ListenerJoin(b, c) ==
    /\ lpc[b] = "draining"
    /\ c \in Spawned(b) \ Range(ljoined)
    /\ br[c].pc = "Done"
    /\ ljoined' = Append(ljoined, c)
    /\ lres' = [lres EXCEPT ![b] = FirstError(@, br[c].result)]
    /\ UNCHANGED <<sideVars, supVars, lpc, nextId, acceptErrs, br, clVars,
                   faults>>

\* Every bridge is joined: the listener returns the first error, else Ok.
ListenerReturn(b) ==
    /\ lpc[b] = "draining"
    /\ Spawned(b) \subseteq Range(ljoined)
    /\ lpc' = [lpc EXCEPT ![b] = "done"]
    /\ lres' = [lres EXCEPT ![b] = IF @ = None THEN "ok" ELSE @]
    /\ UNCHANGED <<sideVars, supVars, ljoined, nextId, acceptErrs, br,
                   clVars, faults>>

\* ---------------------------------------------------- the daemon supervisor
\* The interrupt-signal task completes: the signal arrived, or waiting for
\* it failed.
Signal(r) ==
    /\ spc = "running"
    /\ sigTask = "waiting"
    /\ sigTask' = r
    /\ Faults(Count(r = "err_signal"))
    /\ UNCHANGED <<sideVars, token, spc, cancels, sjoined, sres, lstVars, br,
                   clVars>>

\* A supervisor that would cancel on every completion; C5 tells the two
\* apart.
CancelEveryTime == token' = TRUE /\ cancels' = cancels + 1

\* A supervisor whose later joins would take the cancellation back; C16
\* tells the two apart.
CancelToggle == token' = ~token /\ cancels' = cancels + 1

\* The first completion of a top-level task cancels the root token.
CancelIfFirst ==
    IF sjoined = <<>>
    THEN token' = TRUE /\ cancels' = cancels + 1
    ELSE UNCHANGED <<token, cancels>>

\* The top-level join returned the signal task.
SupJoinSignal ==
    /\ spc = "running"
    /\ sigTask # "waiting"
    /\ "signal" \notin Range(sjoined)
    /\ sjoined' = Append(sjoined, "signal")
    /\ CancelIfFirst
    /\ sres' = FirstError(sres, sigTask)
    /\ UNCHANGED <<sideVars, spc, sigTask, lstVars, br, clVars, faults>>

\* The top-level join returned a listener task.
SupJoinListener(b) ==
    /\ spc = "running"
    /\ lpc[b] = "done"
    /\ b \notin Range(sjoined)
    /\ sjoined' = Append(sjoined, b)
    /\ CancelIfFirst
    /\ sres' = FirstError(sres, lres[b])
    /\ UNCHANGED <<sideVars, spc, sigTask, lstVars, br, clVars, faults>>

\* Every top-level task is joined: the process exits.
SupExit ==
    /\ spc = "running"
    /\ Range(sjoined) = Browsers \cup {"signal"}
    /\ spc' = "exited"
    /\ sres' = IF sres = None THEN "ok" ELSE sres
    /\ UNCHANGED <<sideVars, token, sigTask, cancels, sjoined, lstVars, br,
                   clVars,
                   faults>>

\* ------------------------------------------------------ the daemon's start
\* main of the daemon as src/daemon/main.rs has it.  What it finds when it
\* starts: the browsers of the native binary map it will load, the socket
\* files left in the runtime directory, and the channels the service
\* manager bound for it and passed on.
BootInputs ==
    [pc : {"start"}, map : SUBSET Browsers, files : SUBSET Browsers,
     prebound : SUBSET Browsers, left : {{}}, bound : {{}},
     listeners : {{}}, exit : {None}]

InitBoot ==
    /\ cli = IdleClient /\ fr = IdleChannel /\ elog = IdleLog
    /\ setup = IdleSetup
    /\ boot \in BootInputs
    /\ InitDaemon

BootFail(b) == [b EXCEPT !.pc = "exited", !.exit = "failure"]

\* Everything before the listeners: the runtime directory, the
\* configuration, the messaging host directories, the manifests, the
\* sandbox overrides.  Any of it failing ends main with the error.
BootLoad(ok) ==
    /\ boot.pc = "start"
    /\ boot' = IF ok THEN [boot EXCEPT !.pc = "binding", !.left = boot.map]
               ELSE BootFail(boot)
    /\ UNCHANGED <<daemonVars, cli, fr, elog, setup>>

\* One turn of the loop over the map: the socket file of the browser is
\* removed if there is one, a listener is bound at that path, and a task
\* that accepts on it is spawned.  A failed removal or bind ends main.
BootListenF(b, browser, removeOk, bindOk) ==
    IF browser \in b.files /\ ~removeOk THEN BootFail(b)
    ELSE IF ~bindOk
    THEN [BootFail(b) EXCEPT !.files = b.files \ {browser}]
    ELSE [b EXCEPT !.files = b.files \cup {browser},
                   !.bound = b.bound \cup {browser},
                   !.listeners = b.listeners \cup {browser},
                   !.left = b.left \ {browser}]

BootListen(browser, removeOk, bindOk) ==
    /\ boot.pc = "binding"
    /\ browser \in boot.left
    /\ boot' = BootListenF(boot, browser, removeOk, bindOk)
    /\ UNCHANGED <<daemonVars, cli, fr, elog, setup>>

\* The loop over join_next: a listener task never returns, so with a
\* listener main waits for good; without any it returns Ok(()).
BootJoin ==
    /\ boot.pc = "binding"
    /\ boot.left = {}
    /\ boot' = IF boot.listeners = {}
               THEN [boot EXCEPT !.pc = "exited", !.exit = "success"]
               ELSE [boot EXCEPT !.pc = "serving"]
    /\ UNCHANGED <<daemonVars, cli, fr, elog, setup>>

\* ---------------------------------------------- the framed object channel
\* Bytes are 0..255; text is ASCII.  The strings put through the channel are
\* chosen for what the encoding has to escape or could mistake for its own
\* punctuation: empty, plain, a quote, a backslash before a quote, a
\* trailing backslash, a bracket and a comma.
Strings == {<<>>, <<97>>, <<34>>, <<92, 34>>, <<97, 92>>, <<93, 44>>}
RECURSIVE SeqsUpTo(_, _)
SeqsUpTo(S, n) ==
    IF n = 0 THEN {<<>>}
    ELSE LET shorter == SeqsUpTo(S, n - 1)
         IN  shorter \cup {Append(q, x) : q \in shorter, x \in S}
Messages ==
    [manifest_name : Strings, args : SeqsUpTo(Strings, MaxArgs)]

\* The field names of HandshakeMessage: "manifest_name", "args".
KeyName == <<109, 97, 110, 105, 102, 101, 115, 116, 95, 110, 97, 109, 101>>
KeyArgs == <<97, 114, 103, 115>>

\* An encoder that would copy every character as it is; C18 tells the two
\* apart.
EscapeNone(ch) == <<ch>>

\* serde_json writes a quote and a backslash with a backslash before them.
Escape(ch) == IF ch \in {34, 92} THEN <<92, ch>> ELSE <<ch>>

RECURSIVE EscapeAll(_)
EscapeAll(str) ==
    IF str = <<>> THEN <<>> ELSE Escape(Head(str)) \o EscapeAll(Tail(str))
JsonString(str) == <<34>> \o EscapeAll(str) \o <<34>>
RECURSIVE JsonItems(_)
JsonItems(a) ==
    IF a = <<>> THEN <<>>
    ELSE IF Len(a) = 1 THEN JsonString(a[1])
    ELSE JsonString(Head(a)) \o <<44>> \o JsonItems(Tail(a))

\* serde_json::to_vec of a HandshakeMessage: the compact object
\* {"manifest_name":"..","args":["..",".."]}.
ToVec(m) ==
    <<123>> \o JsonString(KeyName) \o <<58>> \o JsonString(m.manifest_name)
        \o <<44>> \o JsonString(KeyArgs) \o <<58>>
        \o <<91>> \o JsonItems(m.args) \o <<93, 125>>

\* NativeEndian::write_u32 / read_u32: four bytes, in the byte order of the
\* machine both ends run on.
Endians == {"little", "big"}
Reverse(q) == [i \in 1..Len(q) |-> q[Len(q) + 1 - i]]
LittleU32(n) ==
    <<n % 256, (n \div 256) % 256, (n \div 65536) % 256,
      (n \div 16777216) % 256>>
WriteU32(n, e) == IF e = "little" THEN LittleU32(n) ELSE Reverse(LittleU32(n))
ReadU32(q, e) ==
    LET l == IF e = "little" THEN q ELSE Reverse(q)
    IN  l[1] + 256 * l[2] + 65536 * l[3] + 16777216 * l[4]

\* A usize does not fit the model's integers, so the length of a payload
\* is kept as a count of blocks of 65536 bytes and the bytes beyond them;
\* a u32 holds lengths of fewer than 65536 such blocks.
BlockSize == 65536
U32Blocks == 65536
\* The length of the encoding of a message that has, after the arguments
\* listed, one more argument of `bulk` blocks of plain characters (none
\* when bulk is 0): the characters, two quotes and a comma if it is not the
\* only argument.
DataLen(m, bulk) ==
    LET small == Len(ToVec(m)) + Count(bulk > 0) * (2 + Count(m.args # <<>>))
    IN  [blocks |-> bulk + small \div BlockSize, rest |-> small % BlockSize]

\* A conversion to u32 that would take any length; C22 tells the two
\* apart.
FitsAlways(len) == TRUE

\* data.len().try_into() succeeds for lengths up to u32::MAX.
FitsU32(len) == len.blocks < U32Blocks

\* The frame send_nm_object offers to the writer: the length prefix and the
\* payload, as the two slices of one write_vectored call.
FrameOf(m, e) == WriteU32(Len(ToVec(m)), e) \o ToVec(m)

\* send_nm_object: a payload too long for a u32 is refused before anything
\* is written; otherwise one write_vectored call is made, which fails or
\* takes n of the bytes offered; the count it returns is not looked at.
\* (A payload with a bulk argument is always too long, so the frame that is
\* written is that of the message as listed.)
SendNmObject(m, bulk, e, n, writeOk) ==
    IF ~FitsU32(DataLen(m, bulk)) THEN [res |-> "err_size", wrote |-> <<>>]
    ELSE IF ~writeOk THEN [res |-> "err_write", wrote |-> <<>>]
    ELSE [res |-> "ok", wrote |-> SubSeq(FrameOf(m, e), 1, n)]

\* What the parser returns: whether it succeeded, the value, the index of
\* the next byte.
ParseFail == [ok |-> FALSE, val |-> <<>>, pos |-> 0]
Parsed(v, i) == [ok |-> TRUE, val |-> v, pos |-> i]

\* The character an escape sequence stands for (\u is left out).
Unescape(ch) ==
    CASE ch \in {34, 92, 47} -> ch
      [] ch = 110 -> 10
      [] ch = 116 -> 9
      [] ch = 114 -> 13
      [] ch = 98 -> 8
      [] ch = 102 -> 12
      [] OTHER -> 0

\* A JSON string whose opening quote has been read, up to its closing
\* quote.
RECURSIVE ScanString(_, _, _)
ScanString(b, i, acc) ==
    IF i > Len(b) THEN ParseFail
    ELSE IF b[i] = 34 THEN Parsed(acc, i + 1)
    ELSE IF b[i] = 92
    THEN IF i + 1 <= Len(b) /\ Unescape(b[i + 1]) # 0
         THEN ScanString(b, i + 2, Append(acc, Unescape(b[i + 1])))
         ELSE ParseFail
    ELSE IF b[i] < 32 THEN ParseFail
    ELSE ScanString(b, i + 1, Append(acc, b[i]))

ParseString(b, i) ==
    IF i <= Len(b) /\ b[i] = 34 THEN ScanString(b, i + 1, <<>>) ELSE ParseFail

\* The strings of an array after its opening bracket or after a comma.
RECURSIVE ScanArray(_, _, _)
ScanArray(b, i, acc) ==
    LET str == ParseString(b, i) IN
    IF ~str.ok \/ str.pos > Len(b) THEN ParseFail
    ELSE IF b[str.pos] = 93 THEN Parsed(Append(acc, str.val), str.pos + 1)
    ELSE IF b[str.pos] = 44
    THEN ScanArray(b, str.pos + 1, Append(acc, str.val))
    ELSE ParseFail

ParseArray(b, i) ==
    IF i + 1 > Len(b) \/ b[i] # 91 THEN ParseFail
    ELSE IF b[i + 1] = 93 THEN Parsed(<<>>, i + 2)
    ELSE ScanArray(b, i + 1, <<>>)

\* What has been read of the struct so far.
NoFields == [hasName |-> FALSE, name |-> <<>>, hasArgs |-> FALSE, args |-> <<>>]

\* A decoder without deny_unknown_fields: a member the struct does not
\* have is read and dropped; C21 tells the two apart.
RECURSIVE ScanLenient(_, _, _)
ScanLenient(b, i, st) ==
    LET key == ParseString(b, i) IN
    IF ~key.ok \/ key.pos > Len(b) \/ b[key.pos] # 58 THEN ParseFail
    ELSE
    LET known == key.val \in {KeyName, KeyArgs}
        v == IF key.val = KeyName /\ ~st.hasName
             THEN ParseString(b, key.pos + 1)
             ELSE IF key.val = KeyArgs /\ ~st.hasArgs
             THEN ParseArray(b, key.pos + 1)
             ELSE IF ~known /\ key.pos < Len(b) /\ b[key.pos + 1] = 91
             THEN ParseArray(b, key.pos + 1)
             ELSE IF ~known THEN ParseString(b, key.pos + 1)
             ELSE ParseFail
        seen == IF key.val = KeyName
                THEN [st EXCEPT !.hasName = TRUE, !.name = v.val]
                ELSE IF key.val = KeyArgs
                THEN [st EXCEPT !.hasArgs = TRUE, !.args = v.val]
                ELSE st
    IN  IF ~v.ok \/ v.pos > Len(b) THEN ParseFail
        ELSE IF b[v.pos] = 44 THEN ScanLenient(b, v.pos + 1, seen)
        ELSE IF b[v.pos] = 125 /\ seen.hasName /\ seen.hasArgs
        THEN Parsed([manifest_name |-> seen.name, args |-> seen.args],
                    v.pos + 1)
        ELSE ParseFail

\* The members of the object: each known field once (a field the struct
\* does not have, or has had already, is an error), up to the closing
\* brace; a field left out is an error.
RECURSIVE ScanObject(_, _, _)
ScanObject(b, i, st) ==
    LET key == ParseString(b, i) IN
    IF ~key.ok \/ key.pos > Len(b) \/ b[key.pos] # 58 THEN ParseFail
    ELSE
    LET v == IF key.val = KeyName /\ ~st.hasName
             THEN ParseString(b, key.pos + 1)
             ELSE IF key.val = KeyArgs /\ ~st.hasArgs
             THEN ParseArray(b, key.pos + 1)
             ELSE ParseFail
        seen == IF key.val = KeyName
                THEN [st EXCEPT !.hasName = TRUE, !.name = v.val]
                ELSE [st EXCEPT !.hasArgs = TRUE, !.args = v.val]
    IN  IF ~v.ok \/ v.pos > Len(b) THEN ParseFail
        ELSE IF b[v.pos] = 44 THEN ScanObject(b, v.pos + 1, seen)
        ELSE IF b[v.pos] = 125 /\ seen.hasName /\ seen.hasArgs
        THEN Parsed([manifest_name |-> seen.name, args |-> seen.args],
                    v.pos + 1)
        ELSE ParseFail

\* The struct written as a sequence, after its opening bracket: the values
\* of the fields in the order of their declaration, as many as there are
\* fields, and the closing bracket.
ScanSeq(b, i) ==
    LET name == ParseString(b, i) IN
    IF ~name.ok \/ name.pos > Len(b) \/ b[name.pos] # 44 THEN ParseFail
    ELSE LET args == ParseArray(b, name.pos + 1) IN
         IF ~args.ok \/ args.pos > Len(b) \/ b[args.pos] # 93 THEN ParseFail
         ELSE Parsed([manifest_name |-> name.val, args |-> args.val],
                     args.pos + 1)

\* serde_json::from_slice into HandshakeMessage (deny_unknown_fields), for
\* input without white space: the whole slice must be one struct, which
\* serde_json reads from an object or from a sequence.
FromSlice(b) ==
    IF Len(b) < 2 \/ b[1] \notin {123, 91} THEN ParseFail
    ELSE LET obj == IF b[1] = 123 THEN ScanObject(b, 2, NoFields)
                    ELSE ScanSeq(b, 2)
         IN  IF obj.ok /\ obj.pos = Len(b) + 1 THEN obj ELSE ParseFail

\* A receive through a reader that buffers: it would take everything the
\* stream holds; C20 tells the two apart.
RecvBuffered(stream, e) ==
    IF Len(stream) < 4
    THEN [res |-> "err_transport", msg |-> None, pos |-> Len(stream)]
    ELSE LET length == ReadU32(SubSeq(stream, 1, 4), e) IN
         IF Len(stream) < 4 + length
         THEN [res |-> "err_transport", msg |-> None, pos |-> Len(stream)]
         ELSE LET d == FromSlice(SubSeq(stream, 5, 4 + length)) IN
              IF d.ok THEN [res |-> "ok", msg |-> d.val, pos |-> Len(stream)]
              ELSE [res |-> "err_encoding", msg |-> None,
                    pos |-> Len(stream)]

\* recv_nm_object on a stream that holds these bytes and then ends:
\* read_exact of four bytes, the length, read_exact of that many bytes,
\* from_slice.  A read_exact that meets the end of the stream fails, having
\* taken what there was.
RecvNmObject(stream, e) ==
    IF Len(stream) < 4
    THEN [res |-> "err_transport", msg |-> None, pos |-> Len(stream)]
    ELSE LET length == ReadU32(SubSeq(stream, 1, 4), e) IN
         IF Len(stream) < 4 + length
         THEN [res |-> "err_transport", msg |-> None, pos |-> Len(stream)]
         ELSE LET d == FromSlice(SubSeq(stream, 5, 4 + length)) IN
              IF d.ok THEN [res |-> "ok", msg |-> d.val, pos |-> 4 + length]
              ELSE [res |-> "err_encoding", msg |-> None,
                    pos |-> 4 + length]

\* What the client writes directly after its handshake.
Tails == {<<>>, <<123, 34>>}

\* How many of the bytes offered a writer may take in its one call: none,
\* part of the prefix, the prefix, part of the payload, all but one, all.
Accepts(total) == {n \in {0, 2, 4, 6, total - 1, total} : n <= total}

\* The payload of a frame send_nm_object makes is the encoding of its
\* message.
OwnPayload == [form |-> "own", members |-> <<>>]

\* One message about to be sent on a machine of one byte order, and what
\* the sender writes after it.
ChannelInputs ==
    [pc : {"start"}, msg : Messages, bulk : {0, U32Blocks},
     endian : Endians, tail : Tails,
     sres : {None}, wire : {<<>>}, rres : {None}, got : {None}, rpos : {0},
     stdin : {<<>>}, made : {OwnPayload}]

\* Payloads a peer other than this client may frame.  A member has the
\* name of one of the struct's fields or a name the struct does not have,
\* and a value that is a string or a sequence of strings.
MaxMembers == 3
FieldNames == <<"manifest_name", "args">>
Kinds == {"string", "array"}
Members == [key : Range(FieldNames) \cup {"extra"}, kind : Kinds]
KeyExtra == <<120>>
TextA == <<97>>
KeyBytes(k) ==
    CASE k = "manifest_name" -> KeyName
      [] k = "args" -> KeyArgs
      [] OTHER -> KeyExtra
ValueBytes(kind) ==
    IF kind = "string" THEN JsonString(TextA)
    ELSE <<91>> \o JsonString(TextA) \o <<93>>
RECURSIVE JsonMembers(_, _)
JsonMembers(ms, named) ==
    IF ms = <<>> THEN <<>>
    ELSE LET m == Head(ms)
             one == IF named
                    THEN JsonString(KeyBytes(m.key)) \o <<58>>
                             \o ValueBytes(m.kind)
                    ELSE ValueBytes(m.kind)
         IN  IF Len(ms) = 1 THEN one
             ELSE one \o <<44>> \o JsonMembers(Tail(ms), named)
\* In a sequence the position of a value says which field it is.
Positional(ms) ==
    \A i \in DOMAIN ms :
        ms[i].key = IF i <= Len(FieldNames) THEN FieldNames[i] ELSE "extra"
Made ==
    [form : {"map"}, members : SeqsUpTo(Members, MaxMembers)]
        \cup {d \in [form : {"seq"}, members : SeqsUpTo(Members, MaxMembers)] :
                 Positional(d.members)}
PayloadOf(d) ==
    IF d.form = "map" THEN <<123>> \o JsonMembers(d.members, TRUE) \o <<125>>
    ELSE <<91>> \o JsonMembers(d.members, FALSE) \o <<93>>
\* The message whose fields have the values every such payload uses.
Meant == [manifest_name |-> TextA, args |-> <<TextA>>]

\* A frame of such a payload, written whole, after which the stream ends.
PeerInputs ==
    {[pc |-> "closed", msg |-> Meant, bulk |-> 0, endian |-> e,
      tail |-> <<>>,
      sres |-> None, wire |-> WriteU32(Len(PayloadOf(d)), e) \o PayloadOf(d),
      rres |-> None, got |-> None, rpos |-> 0, stdin |-> <<>>, made |-> d] :
        e \in Endians, d \in Made}

InitFrame ==
    /\ cli = IdleClient
    /\ fr \in ChannelInputs \cup PeerInputs
    /\ IdleSide
    /\ InitDaemon

\* send_nm_object(writer, msg) returns.
FrSend(writeOk) ==
    /\ fr.pc = "start"
    /\ \E n \in Accepts(Len(FrameOf(fr.msg, fr.endian))) :
          /\ ~writeOk => n = 0
          /\ LET s == SendNmObject(fr.msg, fr.bulk, fr.endian, n, writeOk)
             IN
             fr' = [fr EXCEPT !.pc = "sent", !.sres = s.res,
                              !.wire = s.wrote]
    /\ UNCHANGED <<daemonVars, cli, boot, elog, setup>>

\* The sender goes on only after a send that returned Ok: it relays what
\* follows and the stream ends.
FrFollow ==
    /\ fr.pc = "sent"
    /\ fr.sres = "ok"
    /\ fr' = [fr EXCEPT !.pc = "closed", !.wire = @ \o fr.tail]
    /\ UNCHANGED <<daemonVars, cli, boot, elog, setup>>

\* recv_nm_object(reader) returns at the other end.
FrRecv ==
    /\ fr.pc = "closed"
    /\ LET r == RecvNmObject(fr.wire, fr.endian) IN
       fr' = [fr EXCEPT !.pc = "received", !.rres = r.res, !.got = r.msg,
                        !.rpos = r.pos]
    /\ UNCHANGED <<daemonVars, cli, boot, elog, setup>>

\* After a handshake the rest of the stream is copied to the child's
\* stdin.
FrCopy ==
    /\ fr.pc = "received"
    /\ fr.rres = "ok"
    /\ fr' = [fr EXCEPT !.pc = "copied",
                        !.stdin = SubSeq(fr.wire, fr.rpos + 1, Len(fr.wire))]
    /\ UNCHANGED <<daemonVars, cli, boot, elog, setup>>

\* ------------------------------------------------------ the child's stderr
\* What a child may write to its stderr before it closes it: letters, line
\* feeds, and a byte that is not UTF-8.
MaxStderr == 4
LineFeed == 10
NotUtf8 == 255
StderrBytes == {97, LineFeed, NotUtf8}
StderrInputs ==
    {[pc |-> "reading", stream |-> q, rest |-> q, logged |-> <<>>,
      result |-> None] : q \in SeqsUpTo(StderrBytes, MaxStderr)}

InitStderr ==
    /\ cli = IdleClient /\ fr = IdleChannel /\ boot = IdleBoot
    /\ setup = IdleSetup
    /\ elog \in StderrInputs
    /\ InitDaemon

\* How many bytes one read_line takes: up to and with the first line feed,
\* or all there is.
RECURSIVE LineLen(_)
LineLen(q) ==
    IF q = <<>> THEN 0
    ELSE IF Head(q) = LineFeed THEN 1
    ELSE 1 + LineLen(Tail(q))

\* String::pop: the string without its last character.
Pop(str) == SubSeq(str, 1, Len(str) - 1)

\* stderr_task, one turn of its loop: read_line; Ok(0) at the end of the
\* stream returns Ok(()); a line that is not UTF-8 returns the error;
\* otherwise the buffer is popped once, logged and cleared.
StderrTaskF(e) ==
    LET n == LineLen(e.rest)
        line == SubSeq(e.rest, 1, n)
    IN  IF n = 0 THEN [e EXCEPT !.pc = "done", !.result = "ok"]
        ELSE IF NotUtf8 \in Range(line)
        THEN [e EXCEPT !.pc = "done", !.result = "err",
                       !.rest = SubSeq(e.rest, n + 1, Len(e.rest))]
        ELSE [e EXCEPT !.logged = Append(@, Pop(line)),
                       !.rest = SubSeq(e.rest, n + 1, Len(e.rest))]

StderrTask ==
    /\ elog.pc = "reading"
    /\ elog' = StderrTaskF(elog)
    /\ UNCHANGED <<daemonVars, cli, fr, boot, setup>>

\* ------------------------------------------------- the client-side bridge
\* main returns an error: the process exits with failure.
ClientFail(c) == [c EXCEPT !.pc = "exited", !.exit = "failure"]

\* A path is the sequence of its components (the root is the empty one);
\* the browser invokes the client with the path of the app manifest and the
\* id of the extension.
MaxArgv == 3
ManifestPath == <<"manifests", "app1.json">>
NoFileName == <<"manifests", "..">>
ExtensionId == <<"ext1">>
ArgValues == {ManifestPath, NoFileName, ExtensionId}
\* The file names the setup tool meets in a manifest directory, with their
\* parts, so that the stem and the extension of a name can be told.
NameParts ==
    [n \in {"app1.json", "app2.json", "notes.txt"} |->
        CASE n = "app1.json" -> <<"app1", ".json">>
          [] n = "app2.json" -> <<"app2", ".json">>
          [] OTHER -> <<"notes", ".txt">>]

\* A client that would send the file-name stem of the manifest path (the
\* name without its extension); C32 tells the two apart.
FileStem(path) ==
    IF path = <<>> \/ path[Len(path)] = ".." THEN None
    ELSE IF path[Len(path)] \in DOMAIN NameParts
    THEN NameParts[path[Len(path)]][1]
    ELSE path[Len(path)]

\* Path::file_name: the last component, unless the path ends in `..` or has
\* no component.
FileName(path) ==
    IF path = <<>> \/ path[Len(path)] = ".." THEN None
    ELSE path[Len(path)]

\* The names of the entries of a directory are kept as their parts, so that
\* the beginning and the end of a name can be told.
SocketPrefix == "nm-proxy-"
SocketSuffix == ".socket"
ChannelName == <<SocketPrefix, "firefox", SocketSuffix>>
SettingsFileName == <<SocketPrefix, "settings", ".toml">>
OtherName == <<"bus">>
StartsWith(name, prefix) == name # <<>> /\ name[1] = prefix
EndsWith(name, suffix) == name # <<>> /\ name[Len(name)] = suffix

\* What the runtime directory may hold: the channel of a browser (a regular
\* file as the sandbox shows it, a socket as the host does), the settings
\* file the setup tool saves there, something else.
MaxEntries == 3
DirEntries ==
    {[name |-> ChannelName, file |-> TRUE],
     [name |-> ChannelName, file |-> FALSE],
     [name |-> SettingsFileName, file |-> TRUE],
     [name |-> OtherName, file |-> FALSE]}
Listings ==
    {l \in SeqsUpTo(DirEntries, MaxEntries) :
        \A i, j \in DOMAIN l : i # j => l[i].name # l[j].name}

\* One invocation: the positional arguments, and the runtime directory in
\* the order in which read_dir will hand out its entries.
ClientInputs ==
    {[IdleClient EXCEPT !.argv = a, !.dir = l] :
        a \in SeqsUpTo(ArgValues, MaxArgv), l \in Listings}

InitClient ==
    /\ cli \in ClientInputs
    /\ fr = IdleChannel /\ IdleSide
    /\ InitDaemon

\* A parser that would take the first two arguments and ignore the rest;
\* C25 tells the two apart.
ParseArgsLoose(c) ==
    IF Len(c.argv) >= 2 /\ FileName(c.argv[1]) # None
    THEN [c EXCEPT !.pc = "parsed",
                   !.hs = [manifest_name |-> FileName(c.argv[1]),
                           args |-> <<c.argv[1], c.argv[2]>>]]
    ELSE [ClientFail(c) EXCEPT !.error = "usage"]

\* parse_args: exactly two arguments after the invocation path, the first
\* with a file name; anything else is the usage error.
ParseArgsF(c) ==
    IF Len(c.argv) = 2 /\ FileName(c.argv[1]) # None
    THEN [c EXCEPT !.pc = "parsed",
                   !.hs = [manifest_name |-> FileName(c.argv[1]),
                           args |-> <<c.argv[1], c.argv[2]>>]]
    ELSE [ClientFail(c) EXCEPT !.error = "usage"]

ClientParseArgs ==
    /\ cli.pc = "invoked"
    /\ cli' = ParseArgsF(cli)
    /\ UNCHANGED <<daemonVars, fr, boot, elog, setup>>

\* The test find_socket makes of an entry: is_file() and
\* name.starts_with(SOCKET_PREFIX).
IsChannel(e) == e.file /\ StartsWith(e.name, SocketPrefix)

\* find_socket, one turn of its loop: the next entry of the stream is taken;
\* if it passes the test its path is returned (the stream is dropped with
\* what is left of it), if the stream is at its end the error `No valid
\* socket found` is returned.  Reading the directory or an entry may fail.
FindSocketF(c, ok) ==
    IF ~ok THEN [ClientFail(c) EXCEPT !.error = "io"]
    ELSE IF c.dir = <<>> THEN [ClientFail(c) EXCEPT !.error = "no_socket"]
    ELSE IF IsChannel(Head(c.dir))
    THEN [c EXCEPT !.pc = "found", !.socket = Head(c.dir).name,
                   !.dir = <<>>]
    ELSE [c EXCEPT !.dir = Tail(c.dir)]

ClientFindSocket(ok) ==
    /\ cli.pc = "parsed"
    /\ cli' = FindSocketF(cli, ok)
    /\ UNCHANGED <<daemonVars, fr, boot, elog, setup>>

\* UnixStream::connect, then into_split.
ClientConnect(ok) ==
    /\ cli.pc = "found"
    /\ cli' = IF ok
              THEN [cli EXCEPT !.pc = "connected",
                               !.trace = Append(@, "connect")]
              ELSE ClientFail(cli)
    /\ UNCHANGED <<daemonVars, fr, boot, elog, setup>>

\* AsyncFd::try_from for standard input and standard output.
ClientStdio(ok) ==
    /\ cli.pc = "connected"
    /\ cli' = IF ok THEN [cli EXCEPT !.pc = "registered"] ELSE ClientFail(cli)
    /\ UNCHANGED <<daemonVars, fr, boot, elog, setup>>

\* What one send_nm_object leaves on the socket: the whole frame, the
\* beginning of it (the one write took fewer bytes), or nothing (the write
\* failed).
SendOutcomes == {"whole", "short", "err"}
Written(m, w) ==
    CASE w = "whole" -> <<Frame(m)>>
      [] w = "short" -> <<PartFrame>>
      [] w = "err" -> <<>>

\* A send that would never report a failure; C15 tells the two apart.
SendNeverFails(w) == FALSE

\* send_nm_object returned Err.
SendFailed(w) == w = "err"

\* The handshake is sent; when the send returned Ok the three tasks are
\* spawned into the set.
ClientHandshake(m, w) ==
    /\ cli.pc = "registered"
    /\ LET sending == [cli EXCEPT !.hs = m, !.wire = Written(m, w),
                                  !.trace = Append(@, "send")]
       IN  cli' = IF SendFailed(w)
                  THEN ClientFail(sending)
                  ELSE [sending EXCEPT
                           !.pc = "running",
                           !.task = [t \in ClientTasks |-> "run"],
                           !.trace = Append(@, "spawn")]
    /\ UNCHANGED <<daemonVars, fr, boot, elog, setup>>

\* The stdin copy relays a chunk of standard input to the socket.
ClientWrite ==
    /\ cli.pc = "running"
    /\ cli.task["stdin_copy"] \in {"run", "aborting"}
    /\ Len(cli.wire) < MaxSent
    /\ cli' = [cli EXCEPT !.wire = Append(@, Data)]
    /\ UNCHANGED <<daemonVars, fr, boot, elog, setup>>

\* A task runs to its end: a copy returns at end of file (Ok) or with an
\* I/O error, the interrupt wait returns when the signal arrived (Ok) or
\* with an error; any of them may panic.  A task whose abort was requested
\* while it was being polled still ends this way.
ClientResults == {"ok", "err", "panic"}
ClientTaskFinish(t, r) ==
    /\ cli.pc = "running"
    /\ cli.task[t] \in {"run", "aborting"}
    /\ cli' = [cli EXCEPT !.task[t] = r, !.ready = Append(@, t)]
    /\ UNCHANGED <<daemonVars, fr, boot, elog, setup>>

\* The runtime drops an aborted task: it completes as cancelled.
ClientTaskCancelled(t) ==
    /\ cli.pc = "running"
    /\ cli.task[t] = "aborting"
    /\ cli' = [cli EXCEPT !.task[t] = "cancelled", !.ready = Append(@, t)]
    /\ UNCHANGED <<daemonVars, fr, boot, elog, setup>>

\* The value a task returns with Ok: true from the interrupt wait, false
\* from a copy.
TaskValue(t) == t = "ctrl_c"

\* A join loop that would leave the other tasks running; C31 tells the two
\* apart.
ClientAbortNone(ts) == ts

\* set.abort_all(): every task that has not completed is asked to stop.
ClientAbortAll(ts) == [t \in ClientTasks |-> IF ts[t] = "run" THEN "aborting"
                                                              ELSE ts[t]]

\* One round of the join loop: join_next returns the task that completed
\* first among those not joined yet; Ok(value) is or-ed into graceful, an
\* Err or a panic returns from main at once, a cancelled task is passed
\* over; the first round aborts the rest of the set.
ClientJoinF(c) ==
    LET t == Head(c.ready)
        got == [c EXCEPT !.ready = Tail(@), !.joined = Append(@, t)]
    IN  IF c.task[t] \in {"err", "panic"}
        THEN ClientFail(got)
        ELSE LET seen == [got EXCEPT !.graceful =
                              @ \/ (c.task[t] = "ok" /\ TaskValue(t))]
             IN  IF ~c.aborted
                 THEN [seen EXCEPT !.aborted = TRUE, !.aborts = @ + 1,
                                   !.task = ClientAbortAll(@)]
                 ELSE seen

ClientJoinNext ==
    /\ cli.pc = "running"
    /\ cli.ready # <<>>
    /\ cli' = ClientJoinF(cli)
    /\ UNCHANGED <<daemonVars, fr, boot, elog, setup>>

\* join_next returned None: the set is empty, main returns Ok when graceful
\* and fails with "Unclean shutdown" otherwise.
ClientExit ==
    /\ cli.pc = "running"
    /\ Len(cli.joined) = Cardinality(ClientTasks)
    /\ cli' = [cli EXCEPT !.pc = "exited",
                          !.exit = IF cli.graceful THEN "success"
                                                   ELSE "failure"]
    /\ UNCHANGED <<daemonVars, fr, boot, elog, setup>>

\* ------------------------------------------------------------ specification
\* The daemon as a whole: the supervisor, both listeners, every bridge.  The
\* clients send their handshake and no payload.
Next ==
    \/ \E b \in Browsers : Accept(b)
    \/ \E b \in Browsers : AcceptFail(b)
    \/ \E b \in Browsers : ListenerCancelled(b)
    \/ \E b \in Browsers, c \in Conns : ListenerJoin(b, c)
    \/ \E b \in Browsers : ListenerReturn(b)
    \/ \E r \in {"ok", "err_signal"} : Signal(r)
    \/ SupJoinSignal
    \/ \E b \in Browsers : SupJoinListener(b)
    \/ SupExit
    \/ \E c \in Conns, i \in FirstItems : sent[c] = <<>> /\ ClientSend(c, i)
    \/ \E c \in Conns : ClientClose(c)
    \/ \E c \in Conns, ok \in BOOLEAN : Launch(c, ok)
    \/ \E c \in Conns : ChildExit(c)
    \/ \E c \in Conns, t \in TaskNames, r \in {"ok", "err"} : Serve(c, t, r)

Spec == Init /\ [][Next]_vars

\* One bridge step by step, with everything around it that it can observe:
\* its client (handshake and payload), its child, the owner of the token.
NextBridge ==
    \/ \E b \in Browsers : nextId = 1 /\ Accept(b)
    \/ \E r \in {"ok", "err_signal"} : Signal(r)
    \/ SupJoinSignal
    \/ \E c \in Conns, i \in FirstItems \cup LaterItems : ClientSend(c, i)
    \/ \E c \in Conns : ClientClose(c)
    \/ \E c \in Conns, ok \in BOOLEAN : Launch(c, ok)
    \/ \E c \in Conns : CopyIn(c)
    \/ \E c \in Conns : CopyOut(c)
    \/ \E c \in Conns, t \in TaskNames, r \in {"ok", "err"} : TaskFinish(c, t, r)
    \/ \E c \in Conns : ChildExit(c)
    \/ \E c \in Conns, t \in TaskNames : JoinNext(c, t)
    \/ \E c \in Conns : GraceElapsed(c)
    \/ \E c \in Conns, ok \in BOOLEAN : WaitExited(c, ok)
    \/ \E c \in Conns, ok \in BOOLEAN : TimeoutKill(c, ok)
    \/ \E c \in Conns : JoinDone(c)

SpecBridge == Init /\ [][NextBridge]_vars

\* The runtime resumes launch whenever what it awaits is ready: a finished
\* task for join_next, the 200 ms sleep, the child's exit or the 10 s
\* timeout in the select!, the kill-and-wait.  Timers fire and a ready
\* future is polled, so such a step is not postponed for ever; when a task
\* finishes or the child exits is up to the environment.
Polled(c) ==
    \/ \E t \in TaskNames : JoinNext(c, t)
    \/ GraceElapsed(c)
    \/ \E ok \in BOOLEAN : WaitExited(c, ok)
    \/ \E ok \in BOOLEAN : TimeoutKill(c, ok)
    \/ JoinDone(c)

FairSpecBridge == SpecBridge /\ \A c \in Conns : WF_vars(Polled(c))

\* The daemon's start alone.
NextBoot ==
    \/ \E ok \in BOOLEAN : BootLoad(ok)
    \/ \E b \in Browsers, removeOk \in BOOLEAN, bindOk \in BOOLEAN :
          BootListen(b, removeOk, bindOk)
    \/ BootJoin

SpecBoot == InitBoot /\ [][NextBoot]_vars

\* ---------------------------------------------------------- the setup tool
\* Entries in the common manifest directory, and in one browser's own.
MaxManifests == 2
MaxSpecific == 1

\* What an app manifest holds of interest: its "path" and its "type".
CommonManifests ==
    {[path |-> "/usr/bin/app", type |-> "stdio"],
     [path |-> None, type |-> "stdio"],
     [path |-> "/usr/bin/app", type |-> "http"]}
SpecificManifest == [path |-> "/opt/app", type |-> "stdio"]

\* A directory entry: a regular file with a manifest in it, or a directory.
ManifestEntries(ms) ==
    {[name |-> n, file |-> TRUE, manifest |-> m] :
        n \in DOMAIN NameParts, m \in ms}
    \cup {[name |-> n, file |-> FALSE, manifest |-> SpecificManifest] :
             n \in DOMAIN NameParts}

\* The entries of one directory in the order the stream gives them; no two
\* have the same name.
ManifestListings(ms, max) ==
    {l \in SeqsUpTo(ManifestEntries(ms), max) :
        \A i, j \in DOMAIN l : l[i].name = l[j].name => i = j}

\* config.nmh_dirs(): the browsers in the order the HashMap yields them,
\* each with its native-messaging-host directory under its Flatpak app
\* directory.
BrowserOrders == {<<"firefox", "chromium">>, <<"chromium", "firefox">>}
NmhDir(browser) == <<"app", browser, "nmh">>

NoBinaries == [n \in {} |-> None]
SetupInputs ==
    {[pc |-> "common", order |-> o, at |-> 1, manifests |-> l,
      specific |-> sp, deployed |-> {},
      map |-> [b \in Browsers |-> NoBinaries], saved |-> FALSE] :
        o \in BrowserOrders,
        l \in ManifestListings(CommonManifests, MaxManifests),
        sp \in [Browsers ->
                  ManifestListings({SpecificManifest}, MaxSpecific)]}

InitSetup ==
    /\ cli = IdleClient /\ fr = IdleChannel
    /\ boot = IdleBoot /\ elog = IdleLog
    /\ setup \in SetupInputs
    /\ InitDaemon

\* An error leaves install_manifests and main through `?`: nothing is saved.
SetupFail(s) == [s EXCEPT !.pc = "failed"]

\* The test both loops make of an entry: a regular file whose name ends
\* with ".json".
IsAppManifest(e) == e.file /\ EndsWith(NameParts[e.name], ".json")

\* install_manifest and the insert that follows it: the manifest is read,
\* its "path" must be a string and its "type" "stdio"; it is written, with
\* the proxy client as its path, to nmh_dir.join(entry.file_name()), and the
\* path it held is inserted into the browser's map under file_name.
InstallManifestF(s, e, browser, ok) ==
    LET deployment_path == NmhDir(browser) \o <<e.name>>
    IN  IF e.manifest.path = None \/ e.manifest.type # "stdio" \/ ~ok
        THEN SetupFail(s)
        ELSE [s EXCEPT
                !.deployed =
                    {d \in @ : d.path # deployment_path}
                    \cup {[browser |-> browser, path |-> deployment_path,
                           binary |-> e.manifest.path]},
                !.map[browser] = (e.name :> e.manifest.path) @@ @]

\* install_manifests, the loop over the common manifests, one browser of
\* one entry at a time: an entry that is no app manifest is skipped; a
\* browser with a manifest of its own under the same name is skipped (a
\* directory of that name is an error); otherwise the manifest is
\* installed for the browser.  At the end of the stream the second loop
\* begins.
InstallCommonF(s, ok) ==
    IF s.manifests = <<>> THEN [s EXCEPT !.pc = "specific", !.at = 1]
    ELSE
        LET e == Head(s.manifests)
            browser == s.order[s.at]
            own == {x \in Range(s.specific[browser]) : x.name = e.name}
            next == IF s.at = Len(s.order)
                    THEN [s EXCEPT !.manifests = Tail(@), !.at = 1]
                    ELSE [s EXCEPT !.at = @ + 1]
        IN  IF ~IsAppManifest(e) THEN [s EXCEPT !.manifests = Tail(@)]
            ELSE IF own # {}
            THEN IF \A x \in own : x.file THEN next ELSE SetupFail(s)
            ELSE InstallManifestF(next, e, browser, ok)

InstallCommon(ok) ==
    /\ setup.pc = "common"
    /\ setup' = InstallCommonF(setup, ok)
    /\ UNCHANGED <<daemonVars, cli, fr, boot, elog>>

\* install_manifests, the loop over the browsers' own manifest directories
\* (a missing directory is an empty one), one entry at a time; after the
\* last browser the map is returned.
InstallSpecificF(s, ok) ==
    IF s.at > Len(s.order) THEN [s EXCEPT !.pc = "built"]
    ELSE
        LET browser == s.order[s.at]
        IN  IF s.specific[browser] = <<>> THEN [s EXCEPT !.at = @ + 1]
            ELSE
                LET e == Head(s.specific[browser])
                    rest == [s EXCEPT !.specific[browser] = Tail(@)]
                IN  IF ~IsAppManifest(e) THEN rest
                    ELSE InstallManifestF(rest, e, browser, ok)

InstallSpecific(ok) ==
    /\ setup.pc = "specific"
    /\ setup' = InstallSpecificF(setup, ok)
    /\ UNCHANGED <<daemonVars, cli, fr, boot, elog>>

\* Settings { native_binaries }.save(runtime_dir): the map is written to
\* the settings file, or the write fails.
SaveSettings(ok) ==
    /\ setup.pc = "built"
    /\ setup' = IF ok THEN [setup EXCEPT !.pc = "done", !.saved = TRUE]
                 ELSE SetupFail(setup)
    /\ UNCHANGED <<daemonVars, cli, fr, boot, elog>>

\* The setup tool alone.
NextSetup ==
    \/ \E ok \in BOOLEAN : InstallCommon(ok)
    \/ \E ok \in BOOLEAN : InstallSpecific(ok)
    \/ \E ok \in BOOLEAN : SaveSettings(ok)

SpecSetup == InitSetup /\ [][NextSetup]_vars

\* The stderr task alone.
NextStderr == StderrTask

SpecStderr == InitStderr /\ [][NextStderr]_vars

\* One message through the framed object channel: sent, followed by more
\* bytes, received and the rest copied.
NextFrame ==
    \/ \E writeOk \in BOOLEAN : FrSend(writeOk)
    \/ FrFollow
    \/ FrRecv
    \/ FrCopy

SpecFrame == InitFrame /\ [][NextFrame]_vars

\* The proxy process on its own, from connect to exit.
NextClient ==
    \/ ClientParseArgs
    \/ \E ok \in BOOLEAN : ClientFindSocket(ok)
    \/ \E ok \in BOOLEAN : ClientConnect(ok)
    \/ \E ok \in BOOLEAN : ClientStdio(ok)
    \/ \E w \in SendOutcomes : ClientHandshake(cli.hs, w)
    \/ ClientWrite
    \/ \E t \in ClientTasks, r \in ClientResults : ClientTaskFinish(t, r)
    \/ \E t \in ClientTasks : ClientTaskCancelled(t)
    \/ ClientJoinNext
    \/ ClientExit

SpecClient == InitClient /\ [][NextClient]_vars

\* The client under a runtime that polls the main task whenever join_next
\* has something to return and drops an aborted task at its next
\* suspension point.
FairSpecClient ==
    /\ SpecClient
    /\ WF_vars(ClientJoinNext)
    /\ WF_vars(ClientExit)
    /\ \A t \in ClientTasks : WF_vars(ClientTaskCancelled(t))

\* ------------------------------------------------------------- properties
\* The trace of a bridge is the history of what it did to its connection and
\* its child: recv, spawn, grace (the first completion was joined and the
\* 200 ms sleep began), sigterm, exit (the child's status was logged),
\* timeout, kill.
Occurs(tr, e) == Cardinality({i \in DOMAIN tr : tr[i] = e})
Precedes(tr, e1, e2) ==
    \A j \in DOMAIN tr : tr[j] = e2 => \E i \in 1..(j - 1) : tr[i] = e1
Returned(c) == br[c].pc = "Done"
HasSpawned(c) == Occurs(br[c].trace, "spawn") > 0
Launched(c) == br[c].pc \notin {"idle", "AwaitingHandshake"}
SentHandshake(c) == sent[c] # <<>> /\ sent[c][1].kind = "frame"
Registered(c) ==
    /\ SentHandshake(c)
    /\ sent[c][1].msg.manifest_name \in DOMAIN NativeBinaries[br[c].owner]
Unregistered(c) ==
    /\ SentHandshake(c)
    /\ sent[c][1].msg.manifest_name \notin DOMAIN NativeBinaries[br[c].owner]

\* C1: a bridge that spawned its child has sent SIGTERM to it by the time it
\* returns, whichever task finished first and whether it finished with Ok or
\* with an I/O error.
C1_SigtermBeforeReturn ==
    \A c \in Conns :
        Returned(c) /\ HasSpawned(c) => Occurs(br[c].trace, "sigterm") >= 1

\* The termination sequence of one bridge never repeats a step and keeps its
\* order: the grace sleep, SIGTERM, then the logged exit or the timeout and
\* the kill.
TerminationOrder(c) ==
    LET tr == br[c].trace IN
    /\ Occurs(tr, "grace") <= 1
    /\ Occurs(tr, "sigterm") <= 1
    /\ Occurs(tr, "kill") <= 1
    /\ Occurs(tr, "exit") + Occurs(tr, "kill") <= 1
    /\ Precedes(tr, "grace", "sigterm")
    /\ br[c].pc = "Grace" => Occurs(tr, "sigterm") = 0
    /\ Precedes(tr, "sigterm", "exit")
    /\ Precedes(tr, "sigterm", "timeout")
    /\ Precedes(tr, "timeout", "kill")

\* C2 (amended): in a bridge that spawned a child SIGTERM is sent at most
\* once and only after the grace sleep that the first completion starts; the
\* logged exit and the forced kill never both happen, the kill is issued at
\* most once, later completions never restart the sequence; and a bridge
\* that returns after SIGTERM has seen exactly one of the two, unless waiting
\* for the child failed: then it has seen neither and returns that error.
C2_TerminationMonotone ==
    \A c \in Conns :
        HasSpawned(c) =>
            /\ TerminationOrder(c)
            /\ Returned(c) /\ Occurs(br[c].trace, "sigterm") = 1 =>
                  \/ Occurs(br[c].trace, "exit")
                        + Occurs(br[c].trace, "kill") = 1
                  \/ br[c].result = "err_wait"

\* C2 as stated: after SIGTERM exactly one of {logged exit, forced kill}
\* happens, in every bridge that returns.
C2_ExactlyOneOutcome ==
    \A c \in Conns :
        HasSpawned(c) =>
            /\ TerminationOrder(c)
            /\ Returned(c) /\ Occurs(br[c].trace, "sigterm") = 1 =>
                  Occurs(br[c].trace, "exit") + Occurs(br[c].trace, "kill") = 1

\* A bridge went through the whole sequence with a child that exited on
\* SIGTERM, drained its task set and returned Ok.
C2_Witness ==
    \E c \in Conns :
        /\ Returned(c)
        /\ br[c].result = "ok"
        /\ br[c].trace = <<"recv", "spawn", "grace", "sigterm", "exit">>

\* What a bridge can do next by itself, without its client, its child or the
\* operating system doing anything first.
OwnStep(c) ==
    \/ \E ok \in BOOLEAN : Launch(c, ok)
    \/ \E t \in TaskNames : TaskFinish(c, t, "ok")
    \/ \E t \in TaskNames : JoinNext(c, t)
    \/ GraceElapsed(c)
    \/ \E ok \in BOOLEAN : WaitExited(c, ok)
    \/ \E ok \in BOOLEAN : TimeoutKill(c, ok)
    \/ JoinDone(c)

\* C3: once the root token is cancelled every live bridge goes on to
\* Terminating and Done by itself: a bridge that has not returned can take
\* its next step whatever its client does.
C3_CascadingShutdown ==
    \A c \in Conns :
        token /\ br[c].pc \notin {"idle", "Done"} => ENABLED OwnStep(c)

\* The failed bridges of listener b, in the order the listener joined them.
JoinedErrors(b) ==
    LET failed(c) == br[c].owner = b /\ br[c].result # "ok"
    IN SelectSeq(ljoined, failed)

Drained(b) ==
    /\ \A c \in Conns :
          br[c].owner = b => br[c].pc = "Done" /\ c \in Range(ljoined)
    /\ lres[b] = IF JoinedErrors(b) = <<>>
                 THEN "ok"
                 ELSE br[JoinedErrors(b)[1]].result

TopResult(x) == IF x = "signal" THEN sigTask ELSE lres[x]
HardErrors ==
    LET failed(x) == TopResult(x) # "ok" IN SelectSeq(sjoined, failed)

OwnCommand(c) ==
    [exe |-> NativeBinaries[br[c].owner][sent[c][1].msg.manifest_name],
     args |-> sent[c][1].msg.args]

\* C6 (amended): a bridge whose handshake is valid and names a registered
\* binary attempts exactly one spawn, of its own browser's map entry with
\* its own handshake's args in order, and has one subprocess unless that
\* spawn failed (SpawnError); no other bridge has a subprocess; so N such
\* connections give exactly N subprocesses when no spawn fails.
C6_OneSpawnEach ==
    /\ \A c \in Conns :
          IF Launched(c) /\ Registered(c)
          THEN /\ br[c].cmd = OwnCommand(c)
               /\ Occurs(br[c].trace, "spawn") =
                     IF br[c].result = "err_spawn" THEN 0 ELSE 1
               /\ br[c].child = "none" <=> br[c].result = "err_spawn"
          ELSE /\ br[c].cmd = None
               /\ br[c].child = "none"
               /\ ~HasSpawned(c)
    /\ Cardinality({c \in Conns : br[c].child # "none"}) =
          Cardinality({c \in Conns : Launched(c) /\ Registered(c)
                                       /\ br[c].result # "err_spawn"})

\* C6 as stated: every bridge whose handshake is valid and names a
\* registered binary has spawned exactly one subprocess.
C6_ExactlyN ==
    \A c \in Conns :
        Launched(c) /\ Registered(c) =>
            /\ br[c].cmd = OwnCommand(c)
            /\ Occurs(br[c].trace, "spawn") = 1

\* Two bridges of different browsers run side by side, each with the command
\* of its own handshake.
C6_Witness ==
    /\ HasSpawned(1) /\ HasSpawned(2)
    /\ br[1].owner # br[2].owner
    /\ br[1].cmd.args # br[2].cmd.args
    /\ br[1].pc = "Join" /\ br[2].pc = "Join"

\* C7: a bridge reads at most one handshake, as the first item of its
\* connection and before anything else: while it waits for the handshake
\* nothing is read, spawned or copied; a child exists or a byte was copied
\* only after the trace began with recv, spawn; the handshake read is the
\* first item the client sent; and everything after that first item goes to
\* the child as it is, a second handshake frame included.
C7_HandshakeFirst ==
    \A c \in Conns :
        LET b == br[c] IN
        /\ Occurs(b.trace, "recv") <= 1
        /\ b.pc = "AwaitingHandshake" =>
              b.rpos = 0 /\ b.trace = <<>> /\ b.child = "none"
        /\ b.child # "none" \/ b.stdin # <<>> \/ b.relayed > 0 =>
              /\ Len(b.trace) >= 2
              /\ b.trace[1] = "recv" /\ b.trace[2] = "spawn"
              /\ sent[c][1] = Frame(b.hs)
        /\ b.stdin = SubSeq(sent[c], 2, b.rpos)

\* The client sent a second handshake frame after the first: it reached the
\* child's stdin as data, and the child's output was relayed back.
C7_Witness ==
    \E c \in Conns :
        /\ br[c].stdin = <<Frame(HandshakeA)>>
        /\ br[c].relayed = 1

C9_NoChildOutlivesBridge ==
    \A c \in Conns :
        Returned(c) /\ br[c].child # "none" => br[c].child = "reaped"

\* C10: a handshake naming a binary that this browser's map does not hold
\* ends the bridge with the resolution error and only then does a bridge end
\* so; nothing was spawned, no copy task was started and nothing beyond the
\* handshake was read; the owning listener is still accepting (until the
\* token is cancelled) and can accept the next connection.
C10_ResolutionError ==
    \A c \in Conns :
        /\ Launched(c) /\ Unregistered(c) =>
              Returned(c) /\ br[c].result = "err_resolve"
        /\ br[c].result = "err_resolve" =>
              /\ Unregistered(c)
              /\ br[c].trace = <<"recv">> /\ br[c].rpos = 1
              /\ br[c].child = "none" /\ br[c].cmd = None
              /\ br[c].task = NoTasks
              /\ br[c].stdin = <<>> /\ br[c].relayed = 0
              /\ ~token => lpc[br[c].owner] = "accepting"
              /\ ~token /\ nextId <= MaxConn => ENABLED Accept(br[c].owner)

\* A bridge ended with the resolution error and the same listener served
\* the next connection.
C10_Witness ==
    /\ br[1].result = "err_resolve"
    /\ br[2].owner = br[1].owner
    /\ HasSpawned(2)

\* The connection never carried a whole, decodable handshake frame.
NoHandshake(c) == sent[c] = <<>> \/ sent[c][1].kind # "frame"

\* C11: a bridge whose handshake read fails (the connection closed before a
\* whole frame arrived, or the payload does not decode) returns the
\* handshake error, and only such a bridge does; it looked nothing up,
\* built no command, spawned nothing and started no task; the owning
\* listener is still accepting (until the token is cancelled) and can
\* accept the next connection.
C11_HandshakeFailure ==
    \A c \in Conns :
        /\ Launched(c) /\ NoHandshake(c) =>
              Returned(c) /\ br[c].result = "err_handshake"
        /\ br[c].result = "err_handshake" =>
              /\ NoHandshake(c)
              /\ sent[c] = <<PartFrame>> \/ sent[c] = <<>> => cl[c] = "closed"
              /\ br[c].hs = None /\ br[c].trace = <<"recv">>
              /\ br[c].child = "none" /\ br[c].cmd = None
              /\ br[c].task = NoTasks
              /\ br[c].stdin = <<>> /\ br[c].relayed = 0
              /\ ~token => lpc[br[c].owner] = "accepting"
              /\ ~token /\ nextId <= MaxConn => ENABLED Accept(br[c].owner)

\* One listener saw a connection close in the middle of its frame and an
\* undecodable payload on the next, or the other way round.
C11_Witness ==
    /\ br[1].result = "err_handshake" /\ br[2].result = "err_handshake"
    /\ br[2].owner = br[1].owner
    /\ {sent[1], sent[2]} = {<<PartFrame>>, <<BadFrame>>}

\* C12: a returned bridge, whatever its result, leaves its listener in the
\* accept loop, able to accept the next connection; until the token is
\* cancelled no listener and no supervisor result holds an error; the token
\* is cancelled and the process exits only after the signal task completed;
\* and a step of one bridge changes no other bridge and no other connection,
\* nor the token, nor any listener.
C12_ErrorContainment ==
    /\ [](/\ \A c \in Conns :
              Returned(c) /\ ~token =>
                  /\ lpc[br[c].owner] = "accepting"
                  /\ nextId <= MaxConn => ENABLED Accept(br[c].owner)
          /\ ~token => sres = None /\ \A b \in Browsers : lres[b] = None
          /\ token \/ spc = "exited" => sigTask # "waiting")
    /\ [][\A c \in Conns :
            br[c].pc # "idle" /\ br'[c] # br[c] =>
                /\ \A d \in Conns \ {c} :
                      br'[d] = br[d] /\ sent'[d] = sent[d] /\ cl'[d] = cl[d]
                /\ token' = token /\ lpc' = lpc /\ lres' = lres]_vars

\* While the token is not cancelled, a listener's first bridge has returned
\* after the forced kill of its child and its second bridge is running.
C12_Witness ==
    /\ ~token
    /\ Returned(1) /\ Occurs(br[1].trace, "kill") = 1
    /\ br[2].owner = br[1].owner
    /\ br[2].pc = "Join" /\ cl[2] = "open"

\* C13: a failed accept only counts: it changes no listener, no bridge, no
\* connection id and not the token; and however many accepts have failed,
\* every listener is still in its accept loop until the token is cancelled
\* and accepts the next connection, spawning a bridge for it.
C13_AcceptFailure ==
    /\ [](acceptErrs > 0 /\ ~token =>
            \A b \in Browsers :
                /\ lpc[b] = "accepting"
                /\ nextId <= MaxConn => ENABLED Accept(b))
    /\ [][acceptErrs' # acceptErrs =>
            /\ acceptErrs' = acceptErrs + 1
            /\ lpc' = lpc /\ lres' = lres /\ br' = br
            /\ nextId' = nextId /\ token' = token]_vars
    /\ [][\A c \in Conns :
            br[c].pc = "idle" /\ br'[c].pc # "idle" =>
                /\ br'[c].pc = "AwaitingHandshake"
                /\ acceptErrs' = acceptErrs]_vars

\* Accepts have failed as often as the bound allows, one connection was
\* accepted and its bridge spawned a child, and both listeners can accept
\* the next one.
C13_Witness ==
    /\ acceptErrs = MaxAcceptErrs
    /\ ~token
    /\ nextId = 2 /\ br[1].pc = "Join" /\ HasSpawned(1)
    /\ \A b \in Browsers : ENABLED Accept(b)

\* The client's tasks in the order they finished: those joined, then those
\* that completed and wait to be joined.
ClientFinished == cli.joined \o cli.ready
ClientExited == cli.pc = "exited" /\ Occurs(cli.trace, "spawn") = 1

InterruptFirst ==
    /\ ClientFinished # <<>>
    /\ ClientFinished[1] = "ctrl_c"
    /\ cli.task["ctrl_c"] = "ok"

\* C14: the rest of the client's task set is aborted at most once, at the
\* first completion; and the process exits with success if and only if the
\* first task to finish was the interrupt wait (returning with the signal),
\* with failure whenever a copy task finished first.
C14_FirstFinisherDecides ==
    /\ cli.aborts <= 1
    /\ cli.aborted <=> cli.aborts = 1
    /\ ClientExited => (cli.exit = "success" <=> InterruptFirst)

\* C15: the client sends its handshake once, after connecting, and spawns
\* its tasks only after that send; once a task has been spawned the socket
\* begins with what that one send wrote of the client's HandshakeMessage
\* and carries relayed data after it, never a second frame; a client whose
\* send failed has spawned no task and has exited with failure.
C15_HandshakeOnce ==
    /\ Occurs(cli.trace, "send") <= 1
    /\ Occurs(cli.trace, "spawn") <= 1
    /\ Precedes(cli.trace, "connect", "send")
    /\ Precedes(cli.trace, "send", "spawn")
    /\ \A i \in DOMAIN cli.wire : i > 1 => cli.wire[i] = Data
    /\ (\E t \in ClientTasks : cli.task[t] # "none") =>
          /\ cli.trace = <<"connect", "send", "spawn">>
          /\ cli.wire # <<>>
          /\ cli.wire[1] \in {Frame(cli.hs), PartFrame}
    /\ Occurs(cli.trace, "send") = 1 /\ cli.wire = <<>> =>
          /\ \A t \in ClientTasks : cli.task[t] = "none"
          /\ cli.pc = "exited" /\ cli.exit = "failure"

\* The send of the handshake failed and the client has exited.
C15_Witness ==
    /\ cli.trace = <<"connect", "send">>
    /\ cli.hs.args = <<ManifestPath, ExtensionId>>
    /\ cli.wire = <<>>
    /\ cli.exit = "failure"

\* C16: the token never goes back from signaled to not signaled; the step
\* that signals it is the supervisor's join of a top-level task, counted as
\* its one cancel; a step that changes a bridge, a connection or a listener
\* leaves the token as it is.
C16_TokenMonotone ==
    /\ [][token => token']_vars
    /\ [][token' # token =>
            /\ sjoined' # sjoined /\ cancels' = cancels + 1
            /\ br' = br /\ clVars' = clVars /\ lstVars' = lstVars]_vars
    /\ [][br' # br \/ lstVars' # lstVars \/ clVars' # clVars =>
            token' = token]_vars

\* Under the signaled token a bridge that was accepted before the cancel
\* has gone through its termination and returned, both listeners have
\* finished and the supervisor has joined all of its tasks.
C16_Witness ==
    /\ token /\ cancels = 1
    /\ Len(sjoined) = 3
    /\ \A b \in Browsers : lpc[b] = "done"
    /\ \E c \in Conns : Returned(c) /\ Occurs(br[c].trace, "sigterm") = 1

\* The bridge is in its termination sequence: the first completion was
\* joined and launch has not returned.
Terminating(c) == br[c].aborted /\ br[c].pc # "Done"

\* C17: a bridge that has entered its termination sequence returns, whether
\* its child exits after SIGTERM or never does: then the timeout fires, the
\* child is killed, the tasks left are aborted and joined.
C17_TerminatingReachesDone ==
    \A c \in Conns : Terminating(c) ~> Returned(c)

\* The token was cancelled while the client was still connected and had
\* sent payload; the child ignored SIGTERM, the timeout fired, the child was
\* killed and the bridge returned.
C17_Witness ==
    /\ token
    /\ Len(sent[1]) = MaxSent /\ br[1].stdin # <<>>
    /\ Returned(1)
    /\ Occurs(br[1].trace, "sigterm") = 1
    /\ Occurs(br[1].trace, "kill") = 1

\* The frame of the channel's message, and whether recv has returned.
SentFrame == FrameOf(fr.msg, fr.endian)
Received == fr.pc \in {"received", "copied"}

\* C18: when the stream holds exactly the frame that send makes of a
\* message, recv returns a message with the same manifest_name and the same
\* args in the same order.
C18_RoundTrip ==
    Received /\ fr.wire = SentFrame =>
        /\ fr.rres = "ok"
        /\ fr.got.manifest_name = fr.msg.manifest_name
        /\ fr.got.args = fr.msg.args

\* A message whose strings need escaping, with two different arguments,
\* came back as it was sent.
C18_Witness ==
    /\ fr.pc = "received" /\ fr.rres = "ok"
    /\ fr.wire = SentFrame
    /\ fr.msg = [manifest_name |-> <<97, 92>>,
                 args |-> <<<<92, 34>>, <<93, 44>>>>]
    /\ fr.got = fr.msg

\* C19: when send returns success the writer has been handed the whole
\* frame, the four length bytes and then every byte of the payload, however
\* many bytes it took in one call.
C19_WholeFrameWritten ==
    fr.pc = "sent" /\ fr.sres = "ok" => fr.wire = SentFrame

\* The length the first four bytes of the stream announce.
Announced == ReadU32(SubSeq(fr.wire, 1, 4), fr.endian)
EndsEarly == Len(fr.wire) < 4 \/ Len(fr.wire) < 4 + Announced

\* C20: a recv that got its bytes has taken exactly the four length bytes
\* and the payload they announce; a stream that ends before that makes recv
\* fail with the transport error and no message, and only such a stream
\* does; the copy to the child's stdin starts with the byte after the
\* frame, so what the client sent directly after a whole handshake frame is
\* what the child reads, all of it.
C20_RecvExact ==
    /\ Received =>
          /\ EndsEarly <=> fr.rres = "err_transport"
          /\ fr.rres = "err_transport" => fr.got = None
          /\ fr.rres # "err_transport" => fr.rpos = 4 + Announced
          /\ fr.wire = SentFrame \o fr.tail =>
                fr.rres = "ok" /\ fr.rpos = Len(SentFrame)
    /\ fr.pc = "copied" =>
          /\ fr.stdin = SubSeq(fr.wire, 5 + Announced, Len(fr.wire))
          /\ fr.wire = SentFrame \o fr.tail => fr.stdin = fr.tail

\* Payload followed a whole handshake frame and reached the child's stdin.
C20_Witness ==
    /\ fr.pc = "copied"
    /\ fr.tail # <<>>
    /\ fr.stdin = fr.tail
    /\ fr.msg.args # <<>>

\* What a framed payload carries: its members' names, and whether each
\* value has the type of its field.
Carried == fr.made.members
Carries(k) == \E i \in DOMAIN Carried : Carried[i].key = k
ExactlyTheTwo ==
    /\ Len(Carried) = 2
    /\ \A k \in Range(FieldNames) : Carries(k)
WellTyped ==
    \A i \in DOMAIN Carried :
        /\ Carried[i].key = "manifest_name" => Carried[i].kind = "string"
        /\ Carried[i].key = "args" => Carried[i].kind = "array"

C22_LengthBound ==
    fr.pc = "sent" =>
        /\ DataLen(fr.msg, fr.bulk).blocks >= U32Blocks =>
              fr.sres = "err_size" /\ fr.wire = <<>>
        /\ fr.sres = "err_size" => fr.bulk > 0

\* A message with an argument of 4 GiB was refused by send.
C22_Witness ==
    /\ fr.pc = "sent"
    /\ fr.bulk = U32Blocks
    /\ fr.msg.args # <<>>
    /\ fr.sres = "err_size"
    /\ fr.wire = <<>>

\* C23: the daemon never creates or binds a listening channel itself;
\* with no pre-bound channel it fails (the fatal activation error, a
\* non-zero exit) and starts no listener task; a browser of the map
\* without a pre-bound channel of its own is fatal as well.
BootSettled == boot.pc \in {"serving", "exited"}
C23_Activation ==
    /\ boot.bound = {}
    /\ boot.prebound = {} =>
          /\ boot.listeners = {}
          /\ BootSettled => boot.pc = "exited" /\ boot.exit = "failure"
    /\ BootSettled /\ ~(boot.map \subseteq boot.prebound) =>
          boot.pc = "exited" /\ boot.exit = "failure"

\* The child of a bridge has exited on its own, the copy of its stdout has
\* ended with that and is the first task joined; nothing has failed and no
\* shutdown was asked for.
ChildExitedFirst(c) ==
    /\ br[c].pc = "Grace"
    /\ br[c].child = "zombie"
    /\ br[c].task["stdout"] = "joined"
    /\ br[c].cmd = OwnCommand(c)
    /\ faults = 0 /\ ~token
HappyEnd(c) ==
    /\ Returned(c)
    /\ faults = 0 =>
          /\ br[c].result = "ok"
          /\ br[c].trace = <<"recv", "spawn", "grace", "sigterm", "exit">>

\* C24: for a handshake that names a registered binary the bridge spawns
\* that binary with the handshake's args; once the child has exited on its
\* own the bridge sends SIGTERM to it all the same, waits on it and
\* completes, and unless something fails meanwhile it completes without
\* error.
C24_HappyPath ==
    \A c \in Conns : ChildExitedFirst(c) ~> HappyEnd(c)

\* A bridge whose child read what the client sent, exited by itself and was
\* then signalled and reaped has returned Ok.
C24_Witness ==
    /\ Returned(1) /\ br[1].result = "ok"
    /\ br[1].trace = <<"recv", "spawn", "grace", "sigterm", "exit">>
    /\ br[1].child = "reaped"
    /\ br[1].stdin # <<>>
    /\ cl[1] = "closed"
    /\ faults = 0 /\ ~token

\* The client got past parse_args.
Proceeded == cli.pc \notin {"invoked", "exited"} \/ cli.error \notin {None, "usage"}
UsageError == cli.pc = "exited" /\ cli.exit = "failure" /\ cli.error = "usage"

\* C25: the client proceeds only when invoked with exactly two positional
\* arguments; with none, one, or three or more it ends with the usage error
\* without having read an entry of the runtime directory or connected; when
\* it proceeds the handshake's args are the manifest path and the extension
\* id, in that order.
C25_TwoArguments ==
    /\ [](cli.pc # "invoked" =>
            /\ Len(cli.argv) # 2 =>
                  UsageError /\ cli.socket = <<>> /\ cli.trace = <<>>
            /\ Proceeded =>
                  /\ Len(cli.argv) = 2
                  /\ cli.hs.args = <<cli.argv[1], cli.argv[2]>>
                  /\ cli.hs.manifest_name = FileName(cli.argv[1]))
    /\ [][cli.pc = "invoked" /\ Len(cli.argv) # 2 => cli'.dir = cli.dir]_vars

\* Invoked with a manifest path and an extension id, the client has found a
\* channel and is about to connect.
C25_Witness ==
    /\ cli.pc = "found"
    /\ cli.argv = <<ManifestPath, ExtensionId>>
    /\ cli.hs = [manifest_name |-> "app1.json",
                 args |-> <<ManifestPath, ExtensionId>>]

\* The name has both the prefix and the suffix of a channel's name.
ChannelNamed(name) ==
    StartsWith(name, SocketPrefix) /\ EndsWith(name, SocketSuffix)

\* C26: discovery returns the first entry, in the order of iteration, whose
\* name has both the fixed prefix and the fixed suffix; an entry with the
\* prefix only, such as the settings file, is never chosen; when no entry
\* matches it fails with `no valid channel found`.
C26_ChannelDiscovery ==
    /\ [](cli.socket # <<>> => ChannelNamed(cli.socket))
    /\ [][cli.pc = "parsed" /\ cli' # cli /\ cli'.error # "io" =>
            IF cli.dir = <<>> THEN cli'.error = "no_socket"
            ELSE LET e == Head(cli.dir) IN
                 IF ChannelNamed(e.name)
                 THEN e.file => cli'.pc = "found" /\ cli'.socket = e.name
                 ELSE cli'.pc = "parsed" /\ cli'.socket = <<>>]_vars

\* The lines of a text: each ends with its line feed, which is not part of
\* it; what follows the last line feed is a line as well.
RECURSIVE LinesOf(_)
LinesOf(q) ==
    IF q = <<>> THEN <<>>
    ELSE LET n == LineLen(q)
             line == SubSeq(q, 1, n)
             text == IF line[n] = LineFeed THEN SubSeq(line, 1, n - 1)
                     ELSE line
         IN  <<text>> \o LinesOf(SubSeq(q, n + 1, Len(q)))

\* C27: every line the child writes to stderr is logged once, in order,
\* without its trailing line feed and otherwise as written, the last line
\* too when it has no line feed; when the stream is closed the task returns
\* success.
C27_StderrLines ==
    elog.pc = "done" /\ NotUtf8 \notin Range(elog.stream) =>
        /\ elog.result = "ok"
        /\ elog.logged = LinesOf(elog.stream)

\* A bridge has been given its connection id.
HasId(c) == br[c].pc # "idle"

\* C28: the listeners share one connection-id generator: the ids handed
\* out so far are the values it has passed, each accept of whichever
\* listener takes its current value and advances it by one, and a bridge
\* keeps its id and its listener, so no two bridges have the same id and
\* ids are handed out in increasing order.
C28_SharedIds ==
    /\ [](\A c \in Conns : HasId(c) <=> c < nextId)
    /\ [][/\ nextId' \in {nextId, nextId + 1}
          /\ \A c \in Conns :
                /\ ~HasId(c) /\ HasId(c)' =>
                      c = nextId /\ nextId' = nextId + 1
                /\ HasId(c) =>
                      HasId(c)' /\ br'[c].owner = br[c].owner]_vars

\* The two listeners have each accepted one connection; the bridges have
\* the ids 1 and 2.
C28_Witness ==
    /\ nextId = 3
    /\ br[1].owner = "chromium" /\ br[2].owner = "firefox"
    /\ HasId(1) /\ HasId(2)

\* The token is cancelled and the bridge is still waiting for the handshake
\* of a client that has connected but has neither sent a whole handshake nor
\* closed.
SilentClient(c) ==
    /\ token
    /\ br[c].pc = "AwaitingHandshake"
    /\ cl[c] = "open"
    /\ ~WholeFrame(sent[c], br[c].rpos)

\* C29: a bridge still in AwaitingHandshake when the token is cancelled
\* finishes, without spawning a subprocess, although its client does
\* nothing more: it does not stay waiting for the silent client for good.
C29_SilentClientReleased ==
    \A c \in Conns :
        SilentClient(c) ~>
            (~SilentClient(c) /\ (Returned(c) => ~HasSpawned(c)))

\* One of the client's tasks has finished while main is in its join loop.
OneFinished == cli.pc = "running" /\ ClientFinished # <<>>
JoinedFailure ==
    \E i \in DOMAIN cli.joined : cli.task[cli.joined[i]] \in {"err", "panic"}

\* C31: once any one of the client's three tasks has finished the client
\* process exits, with success or failure, without waiting for the other
\* tasks to finish on their own: the others are aborted, and at the exit
\* every task has been joined unless a joined task's error ended main
\* before.
C31_ClientTerminates ==
    OneFinished ~>
        /\ cli.pc = "exited"
        /\ cli.exit \in {"success", "failure"}
        /\ cli.aborts = 1 \/ JoinedFailure
        /\ Len(cli.joined) = Cardinality(ClientTasks) \/ JoinedFailure

\* The interrupt wait finished; both copies were aborted and joined as
\* cancelled, and the process has exited.
C31_Witness ==
    /\ cli.pc = "exited"
    /\ Len(cli.joined) = 3
    /\ cli.joined[1] = "ctrl_c"
    /\ cli.task["stdin_copy"] = "cancelled"
    /\ cli.task["stdout_copy"] = "cancelled"
    /\ cli.exit = "success"

\* The bridge sends SIGTERM in this step.
Signals(c) ==
    Occurs(br'[c].trace, "sigterm") > Occurs(br[c].trace, "sigterm")

\* C30: SIGTERM is sent only to a pid that is still the bridge's own
\* child's: at most once, in a step before which the child has its id
\* (it runs, or has exited and was not yet waited on) and after which it is
\* still not reaped, hence before the wait and before the kill; a child
\* without an id is not signalled.
C30_SigtermOwnChild ==
    /\ [](\A c \in Conns :
            LET tr == br[c].trace IN
            /\ Occurs(tr, "sigterm") <= 1
            /\ Occurs(tr, "exit") > 0 => Precedes(tr, "sigterm", "exit")
            /\ Occurs(tr, "kill") > 0 => Precedes(tr, "sigterm", "kill"))
    /\ [][\A c \in Conns :
            Signals(c) =>
                /\ ChildHasId(br[c])
                /\ br'[c].child \in {"alive", "zombie"}]_vars

\* A bridge that was told to shut down has signalled its child and has
\* waited on it after that.
C30_Witness ==
    /\ br[1].pc = "Join" /\ br[1].aborted
    /\ br[1].child = "reaped"
    /\ br[1].trace = <<"recv", "spawn", "grace", "sigterm", "exit">>
    /\ token

\* The manifest_name the client sends when the browser starts it with the
\* path of a deployed manifest and an extension id.
StartedWith(path) ==
    ParseArgsF([IdleClient EXCEPT !.argv = <<path, ExtensionId>>])

\* C32: for every manifest setup has deployed for a browser, the client
\* started with the deployed manifest's path derives a manifest_name that
\* is a key of that browser's Native Binary Map, and the key leads to the
\* executable the deployed manifest named; so the daemon's lookup finds it.
C32_KeyAgreement ==
    setup.pc # "idle" =>
        \A d \in setup.deployed :
            LET c == StartedWith(d.path)
            IN  /\ c.pc = "parsed"
                /\ c.hs.manifest_name \in DOMAIN setup.map[d.browser]
                /\ setup.map[d.browser][c.hs.manifest_name] = d.binary

\* Setup is complete and the map saved: the common app1.json was deployed
\* for chromium, firefox's own app1.json for firefox.
C32_Witness ==
    /\ setup.pc = "done" /\ setup.saved
    /\ [browser |-> "chromium", path |-> NmhDir("chromium") \o <<"app1.json">>,
        binary |-> "/usr/bin/app"] \in setup.deployed
    /\ [browser |-> "firefox", path |-> NmhDir("firefox") \o <<"app1.json">>,
        binary |-> "/opt/app"] \in setup.deployed

====
